---- MODULE Spec2Model ----
(***************************************************************************)
(* A model of imagecube.py: the command-line parser, the ingestion of the  *)
(* input directory, the five stages and the cleanup operation, run         *)
(* repeatedly over one persistent input directory.                         *)
(*                                                                         *)
(* Numbers.  Every real number of the program (wavelengths, pixel scales,  *)
(* FWHM values) is an integer count of 1e-4 units (fixed point), so that   *)
(* 1.2409 micron is 12409 and 1 angstrom = 1e-4 micron is exact.  Quotients*)
(* handed to the external services are kept as unevaluated fractions.      *)
(*                                                                         *)
(* Results.  A Python call either returns a value, calls sys.exit, or      *)
(* raises an exception nobody catches; the three are kept apart as records *)
(* of kind "ok", "exit" and "raise".                                       *)
(***************************************************************************)
EXTENDS Integers, Sequences, FiniteSets, TLC

VARIABLES
    inputDir,             \* the raw files of the input directory (never written)
    dirs,                 \* the stage subdirectories that exist under the input directory
    disk,                 \* path -> content, the files inside the stage subdirectories
    cwdFiles,             \* names of the files written to the current working directory
    argv,                 \* the command line of the current run: a sequence of [opt, arg]
    globals,              \* the module-level globals set by parse_command_line
    pc,                   \* position of __main__
    all_files,            \* the raw files in the order glob returned them
    images_with_headers,  \* the working collection, a sequence of [data, header, filename]
    exitStatus,           \* process exit status (-1 while running)
    cause,                \* why the run ended
    diag,                 \* the diagnostic printed when the run ended
    executed,             \* the stage functions called in this run, in call order
    completed,            \* the stage functions that returned in this run
    reads,                \* [stage, dir] for every stage-directory read attempted in this run
    wrote,                \* the paths written or created in this run
    run,                  \* number of runs started so far
    prev,                 \* what the previous run was and left on disk
    fwhm_images,          \* input of the FWHM lookup study
    fwhm_result,          \* its result
    factor_header,        \* input of the conversion factor study, a header after ingestion
    factor_result,        \* its result
    sed_images,           \* input of the SED table study, a collection after resampling
    sed_table,            \* its result
    instrument_header,    \* input of the instrument resolution study, a header
    instrument_result,    \* its result
    wavelength_header,    \* input of the wavelength resolution study, a header
    wavelength_result,    \* its result
    worker_directory,     \* the stage directory the workers of the study share
    worker_dirs,          \* the directories that exist in the study
    worker_pc,            \* the statement each worker is at
    worker_wrote,         \* the files the workers have written
    scale_image,          \* input of the pixel scale study, an image record
    scale_grid,           \* what the grid builder left for it
    scale_kernel          \* what the kernel sizing left for it

vars == << inputDir, dirs, disk, cwdFiles, argv, globals, pc, all_files, images_with_headers,
           exitStatus, cause, diag, executed, completed, reads, wrote, run, prev,
           fwhm_images, fwhm_result,
           factor_header, factor_result,
           sed_images, sed_table,
           instrument_header, instrument_result,
           wavelength_header, wavelength_result,
           worker_directory, worker_dirs, worker_pc, worker_wrote,
           scale_image, scale_grid, scale_kernel >>

scaleVars == <<scale_image, scale_grid, scale_kernel>>

workerVars == <<worker_directory, worker_dirs, worker_pc, worker_wrote>>

wavelengthVars == <<wavelength_header, wavelength_result>>

instrumentVars == <<instrument_header, instrument_result>>

sedVars == <<sed_images, sed_table>>

factorVars == <<factor_header, factor_result>>

----------------------------------------------------------------------------
(* Fixed point and results *)

\* one unit (1.0) in fixed point
FxOne == 10000

Fx(n) == n * FxOne

Abs(x) == IF x < 0 THEN -x ELSE x

Ok(v) == [kind |-> "ok", value |-> v]

\* sys.exit(status) after printing message (sys.exit() without argument: status 0);
\* why names the condition the code tested
SysExit(status, why, message) ==
    [kind |-> "exit", status |-> status, why |-> why, message |-> message]

\* an exception that nothing catches: traceback on stderr, exit status 1
Raise(exc) == [kind |-> "raise", exc |-> exc]

IsOk(r) == r.kind = "ok"

\* a result not computed yet
Unset == [kind |-> "unset"]

\* Python's "sub in text" for the header strings of the model
Contains(sub, text) ==
    CASE sub = "galex" -> text \in {"galex", "galex_fuv", "galex_nuv"}
      [] sub = "2MASS" -> text \in {"2MASS", "2MASS All-Sky"}
      [] OTHER -> sub = text

\* str.lower() on the filter and unit strings of the model
Lower(s) ==
    CASE s = "J" -> "j"
      [] s = "H" -> "h"
      [] s = "K" -> "k"
      [] s = "Ks" -> "ks"
      [] s = "Jy/pixel" -> "jy/pixel"
      [] s = "JY/PIXEL" -> "jy/pixel"
      [] OTHER -> s

----------------------------------------------------------------------------
(* Program constants *)

WAVELENGTH_2MASS_J == 12409
WAVELENGTH_2MASS_H == 16514
WAVELENGTH_2MASS_KS == 21656
\* 3.3, in fixed point
NYQUIST_SAMPLING_RATE == 33000

\* a decimal literal of the source: mantissa * 10^exponent
Dec(mantissa, exponent) == [mantissa |-> mantissa, exponent |-> exponent]

MJY_PER_SR_TO_JY_PER_PIXEL == Dec(23504, -9)
FUV_LAMBDA_CON == Dec(140, -17)
NUV_LAMBDA_CON == Dec(206, -18)
FVEGA_J == Dec(1594, 0)
FVEGA_H == Dec(1024, 0)
FVEGA_KS == Dec(6667, -1)
S250_BEAM_AREA == Dec(423, 0)
S350_BEAM_AREA == Dec(751, 0)
S500_BEAM_AREA == Dec(1587, 0)
\* the initial value 0 of fvega, f_lambda_con and conversion_factor
Zero == Dec(0, 0)

\* u.micron.names / u.um.names and u.angstrom.names
MicronNames == {"micron", "um"}
AngstromNames == {"angstrom", "AA", "Angstrom"}

----------------------------------------------------------------------------
(* Metadata resolver *)

\* a header with no card
EmptyHeader == [key \in {} |-> 0]

Has(header, key) == key \in DOMAIN header

\* header[key]: KeyError when the keyword is absent
Get(header, key) == IF Has(header, key) THEN Ok(header[key].value) ELSE Raise("KeyError")

\* a Python value that is a number or a string
Num(n) == [num |-> n]
Str(s) == [str |-> s]
IsNum(v) == "num" \in DOMAIN v

\* u.angstrom.to(u.micron, x) is x / 10000
AngstromsPerMicron == 10000

\* wavelength_to_microns: float(wavelength) raises ValueError on a non-numeric string
wavelength_to_microns(wavelength, unit) ==
    IF unit \in MicronNames
    THEN IF IsNum(wavelength) THEN Ok(wavelength.num) ELSE Raise("ValueError")
    ELSE IF unit \in AngstromNames
    THEN IF IsNum(wavelength) THEN Ok(wavelength.num \div AngstromsPerMicron)
         ELSE Raise("ValueError")
    ELSE Ok(FxOne)

get_instrument_no_exit(header) ==
    IF Has(header, "INSTRUME") THEN Ok(header["INSTRUME"].value)
    ELSE IF Has(header, "INF0001")
    THEN IF Contains("galex", header["INF0001"].value) THEN Ok("GALEX") ELSE Ok("")
    ELSE IF Has(header, "ORIGIN")
    THEN IF Contains("2MASS", header["ORIGIN"].value) THEN Ok("2MASS") ELSE Ok("")
    ELSE Ok("")

get_instrument(header) ==
    IF Has(header, "INSTRUME") THEN Ok(header["INSTRUME"].value)
    ELSE IF Has(header, "INF0001")
    THEN IF Contains("galex", header["INF0001"].value) THEN Ok("GALEX") ELSE Ok("")
    ELSE IF Has(header, "ORIGIN")
    THEN IF Contains("2MASS", header["ORIGIN"].value) THEN Ok("2MASS") ELSE Ok("")
    ELSE SysExit(0, "instrument", "could not determine instrument; please insert appropriate information in the header.")

\* get_native_pixelscale; the message printed for a scale of 0 changes nothing
get_native_pixelscale(header, instrument) ==
    IF instrument = "IRAC"
    THEN IF Has(header, "PXSCAL1") THEN Ok(Abs(header["PXSCAL1"].value)) ELSE Raise("KeyError")
    ELSE IF instrument = "MIPS"
    THEN Get(header, "PLTSCALE")
    ELSE IF instrument = "SPIRE"
    THEN IF Has(header, "CDELT2") THEN Ok(3600 * Abs(header["CDELT2"].value)) ELSE Raise("KeyError")
    ELSE IF Has(header, "CDELT2") THEN Ok(3600 * Abs(header["CDELT2"].value))
    ELSE Ok(0)

\* get_wavelength: [wavelength, units], the wavelength a number or a string
get_wavelength(header) ==
    IF Has(header, "WAVELENG")
    THEN Ok([wavelength |-> Num(header["WAVELENG"].value), units |-> header["WAVELENG"].comment])
    ELSE IF Has(header, "WAVELNTH")
    THEN Ok([wavelength |-> Num(header["WAVELNTH"].value), units |-> "micron"])
    ELSE IF Has(header, "FILTER")
    THEN LET instrument == get_instrument(header)
             f == Lower(header["FILTER"].value)
         IN  IF ~IsOk(instrument) THEN instrument
             ELSE IF instrument.value = "2MASS" /\ f = "j"
                  THEN Ok([wavelength |-> Num(WAVELENGTH_2MASS_J), units |-> "micron"])
             ELSE IF instrument.value = "2MASS" /\ f = "h"
                  THEN Ok([wavelength |-> Num(WAVELENGTH_2MASS_H), units |-> "micron"])
             ELSE IF instrument.value = "2MASS" /\ f = "k"
                  THEN Ok([wavelength |-> Num(WAVELENGTH_2MASS_KS), units |-> "micron"])
             ELSE Ok([wavelength |-> Str(header["FILTER"].value), units |-> "micron"])
    ELSE Ok([wavelength |-> Num(0), units |-> ""])

----------------------------------------------------------------------------
(* Flux conversion engine.  The factor is kept as the formula the code     *)
(* evaluates together with its operands; zero says whether it evaluates    *)
(* to 0.                                                                   *)


\* the GALEX calibration constant for a wavelength in angstroms
f_lambda_con_le(wavelength) ==
    IF wavelength <= Fx(2000) THEN FUV_LAMBDA_CON ELSE NUV_LAMBDA_CON

f_lambda_con_of(wavelength) ==
    IF wavelength < Fx(2000) THEN FUV_LAMBDA_CON ELSE NUV_LAMBDA_CON

get_conversion_factor(header, instrument) ==
    IF instrument \in {"IRAC", "MIPS"}
    THEN LET pixelscale == get_native_pixelscale(header, instrument)
         IN  IF ~IsOk(pixelscale) THEN pixelscale
             ELSE Ok([formula |-> "MJY_PER_SR_TO_JY_PER_PIXEL * pixelscale**2",
                      constant |-> MJY_PER_SR_TO_JY_PER_PIXEL,
                      pixelscale |-> pixelscale.value, zero |-> pixelscale.value = 0])
    ELSE IF instrument = "GALEX"
    THEN IF ~Has(header, "WAVELENG") THEN Raise("KeyError")
         ELSE LET \* u.um.to(u.angstrom, header['WAVELENG'])
                  wavelength == header["WAVELENG"].value * AngstromsPerMicron
              IN  Ok([formula |-> "JY_CONVERSION * f_lambda_con * wavelength**2 / c",
                      f_lambda_con |-> f_lambda_con_of(wavelength),
                      wavelength |-> wavelength, zero |-> wavelength = 0])
    ELSE IF instrument = "2MASS"
    THEN IF ~Has(header, "FILTER") \/ ~Has(header, "MAGZP") THEN Raise("KeyError")
         ELSE LET fvega == CASE header["FILTER"].value = "j" -> FVEGA_J
                             [] header["FILTER"].value = "h" -> FVEGA_H
                             [] header["FILTER"].value = "k" -> FVEGA_KS
                             [] OTHER -> Zero
              IN  Ok([formula |-> "fvega * 10**(-0.4 * MAGZP)", fvega |-> fvega,
                      MAGZP |-> header["MAGZP"].value, zero |-> fvega = Zero])
    ELSE IF instrument = "PACS"
    THEN Ok([formula |-> "1", zero |-> FALSE])
    ELSE IF instrument = "SPIRE"
    THEN LET pixelscale == get_native_pixelscale(header, "SPIRE")
         IN  IF ~IsOk(pixelscale) THEN pixelscale
             ELSE IF ~Has(header, "WAVELENG") THEN Raise("KeyError")
             ELSE LET wavelength == header["WAVELENG"].value
                      beam_area == CASE wavelength = Fx(250) -> S250_BEAM_AREA
                                     [] wavelength = Fx(350) -> S350_BEAM_AREA
                                     [] wavelength = Fx(500) -> S500_BEAM_AREA
                                     [] OTHER -> Zero
                  IN  IF beam_area = Zero THEN Ok([formula |-> "0", zero |-> TRUE])
                      ELSE Ok([formula |-> "pixelscale**2 / beam_area",
                              pixelscale |-> pixelscale.value, beam_area |-> beam_area,
                              zero |-> pixelscale.value = 0])
    ELSE Ok([formula |-> "0", zero |-> TRUE])

----------------------------------------------------------------------------
(* Resolution convolver: the common FWHM *)

\* wavelength_range: some wavelength of the list lies in [lower, upper].  The
\* list holds what get_wavelength returned; a string orders after every number,
\* so it lies in no range.
wavelength_range(wavelengths, lower, upper) ==
    \E i \in 1..Len(wavelengths) :
        IsNum(wavelengths[i]) /\ wavelengths[i].num >= lower /\ wavelengths[i].num <= upper

\* the dictionary instrument -> list of wavelengths, built image by image;
\* a get_instrument or get_wavelength that does not return ends the loop
RECURSIVE InstrumentsWithWavelengths(_, _, _)
InstrumentsWithWavelengths(images, i, dict) ==
    IF i > Len(images) THEN Ok(dict)
    ELSE LET instrument == get_instrument(images[i].header)
             wavelength == get_wavelength(images[i].header)
         IN  IF ~IsOk(instrument) THEN instrument
             ELSE IF ~IsOk(wavelength) THEN wavelength
             ELSE LET k == instrument.value
                      w == wavelength.value.wavelength
                      d == IF k \in DOMAIN dict
                           THEN [dict EXCEPT ![k] = Append(@, w)]
                           ELSE [x \in DOMAIN dict \cup {k} |->
                                    IF x = k THEN <<w>> ELSE dict[x]]
                  IN  InstrumentsWithWavelengths(images, i + 1, d)

EmptyDict == [x \in {} |-> <<>>]

\* the chain of elif tests of get_fwhm_value, in the code's order
FwhmOfDictSwapped(d) ==
    LET in(k, lo, hi) == k \in DOMAIN d /\ wavelength_range(d[k], Fx(lo), Fx(hi))
    IN  IF in("MIPS", 140, 170) THEN Fx(76)
        ELSE IF in("MIPS", 50, 90) THEN Fx(37)
        ELSE IF in("SPIRE", 490, 510) THEN Fx(43)
        ELSE IF in("SPIRE", 200, 299) THEN Fx(22)
        ELSE IF in("SPIRE", 300, 400) THEN Fx(30)
        ELSE IF in("PACS", 140, 180) THEN Fx(18)
        ELSE IF in("MIPS", 18, 30) THEN Fx(13)
        ELSE IF in("PACS", 90, 110) THEN 125000
        ELSE IF in("PACS", 60, 80) THEN 105000
        ELSE 0

FwhmOfDict(d) ==
    LET in(k, lo, hi) == k \in DOMAIN d /\ wavelength_range(d[k], Fx(lo), Fx(hi))
    IN  IF in("MIPS", 140, 170) THEN Fx(76)
        ELSE IF in("SPIRE", 490, 510) THEN Fx(43)
        ELSE IF in("MIPS", 50, 90) THEN Fx(37)
        ELSE IF in("SPIRE", 300, 400) THEN Fx(30)
        ELSE IF in("SPIRE", 200, 299) THEN Fx(22)
        ELSE IF in("PACS", 140, 180) THEN Fx(18)
        ELSE IF in("MIPS", 18, 30) THEN Fx(13)
        ELSE IF in("PACS", 90, 110) THEN 125000
        ELSE IF in("PACS", 60, 80) THEN 105000
        ELSE 0

get_fwhm_value(images) ==
    LET d == InstrumentsWithWavelengths(images, 1, EmptyDict)
    IN  IF ~IsOk(d) THEN d ELSE Ok(FwhmOfDict(d.value))

----------------------------------------------------------------------------
(* Command line *)

Stages == <<"conversion", "registration", "convolution", "resampling", "seds">>
StageSet == {Stages[i] : i \in 1..Len(Stages)}

\* the long options getopt accepts
KnownOptions ==
    {"--directory", "--angular_size", "--conversion_factors", "--conversion",
     "--registration", "--convolution", "--resampling", "--seds", "--cleanup",
     "--ra", "--dec", "--reference_image", "--convolution_reference_image", "--help"}

\* opt in ("--name"): the parentheses make no tuple, so this is Python's
\* substring test of opt in the string "--name"
OptIn(opt, name) ==
    \/ opt = name
    \/ opt = "--conversion" /\ name = "--conversion_factors"
    \/ opt = "--convolution" /\ name = "--convolution_reference_image"

\* float(arg): the strings of the model that are numerals, and their values
NumericArgs == {"120", "10.5", "41"}
FloatOf(arg) ==
    CASE arg = "120" -> Fx(120)
      [] arg = "10.5" -> 105000
      [] arg = "41" -> Fx(41)

\* os.path.isdir and open(): the one input directory and the file names in it
TheDirectory == "data"
isdir(path) == path = TheDirectory
CanOpen(path) == path \in {TheDirectory \o "/" \o "ref.fits"}

InitialGlobals ==
    [phys_size |-> Str(""), directory |-> "", ra_input |-> Str(""), dec_input |-> Str(""),
     main_reference_image |-> "", convolution_reference_image |-> "",
     conversion_factors |-> FALSE, do_conversion |-> FALSE, do_registration |-> FALSE,
     do_convolution |-> FALSE, do_resampling |-> FALSE, do_seds |-> FALSE,
     do_cleanup |-> FALSE]

\* How the body of "for opt, arg in opts" ends for one option: sys.exit() of
\* --help and of a directory that is none, the ValueError of float(arg), or
\* the end of the body.  One option satisfies the tests of one branch that
\* can end the program, so the order of the tests is the order of the code.
OptionEnd(opt, arg) ==
    IF OptIn(opt, "--help") THEN SysExit(0, "help", "usage")
    ELSE IF OptIn(opt, "--angular_size") /\ arg \notin NumericArgs THEN Raise("ValueError")
    ELSE IF OptIn(opt, "--directory") /\ ~isdir(arg)
    THEN SysExit(0, "directory", "Error: The directory cannot be found: " \o arg)
    ELSE IF OptIn(opt, "--ra") /\ arg \notin NumericArgs THEN Raise("ValueError")
    ELSE IF OptIn(opt, "--dec") /\ arg \notin NumericArgs THEN Raise("ValueError")
    ELSE Ok(TRUE)

\* The globals the body has assigned when it ends: directory is assigned
\* before os.path.isdir is asked, a float() that raises assigns nothing.
OptionSets(g, opt, arg) ==
    IF OptIn(opt, "--help") THEN g
    ELSE [g EXCEPT
            !.phys_size = IF OptIn(opt, "--angular_size") /\ arg \in NumericArgs
                          THEN Num(FloatOf(arg)) ELSE @,
            !.directory = IF OptIn(opt, "--directory") THEN arg ELSE @,
            !.conversion_factors = @ \/ OptIn(opt, "--conversion_factors"),
            !.do_conversion = @ \/ OptIn(opt, "--conversion"),
            !.do_registration = @ \/ OptIn(opt, "--registration"),
            !.do_convolution = @ \/ OptIn(opt, "--convolution"),
            !.do_resampling = @ \/ OptIn(opt, "--resampling"),
            !.do_seds = @ \/ OptIn(opt, "--seds"),
            !.do_cleanup = @ \/ OptIn(opt, "--cleanup"),
            !.ra_input = IF OptIn(opt, "--ra") /\ arg \in NumericArgs
                         THEN Num(FloatOf(arg)) ELSE @,
            !.dec_input = IF OptIn(opt, "--dec") /\ arg \in NumericArgs
                          THEN Num(FloatOf(arg)) ELSE @,
            !.main_reference_image =
                IF OptIn(opt, "--reference_image") THEN arg ELSE @,
            !.convolution_reference_image =
                IF OptIn(opt, "--convolution_reference_image") THEN arg ELSE @]

\* What parse_command_line leaves: the globals as far as they were set, and how
\* it ended.
Parsed(g, end) == [globals |-> g, end |-> end]

\* for opt, arg in opts
RECURSIVE ParseOptions(_, _, _)
ParseOptions(opts, i, g) ==
    IF i > Len(opts) THEN Parsed(g, Ok(TRUE))
    ELSE IF IsOk(OptionEnd(opts[i].opt, opts[i].arg))
    THEN ParseOptions(opts, i + 1, OptionSets(g, opts[i].opt, opts[i].arg))
    ELSE Parsed(OptionSets(g, opts[i].opt, opts[i].arg),
                OptionEnd(opts[i].opt, opts[i].arg))

\* the two existence checks that follow the option loop
ReferenceChecks(g) ==
    IF g.main_reference_image # ""
       /\ ~CanOpen(g.directory \o "/" \o g.main_reference_image)
    THEN SysExit(0, "reference_image", "The file " \o g.main_reference_image
                    \o " could not be found in the directory " \o g.directory)
    ELSE IF g.convolution_reference_image # ""
            /\ ~CanOpen(g.directory \o "/" \o g.convolution_reference_image)
    THEN SysExit(0, "reference_image", "The file " \o g.convolution_reference_image
                    \o " could not be found in the directory " \o g.directory)
    ELSE Ok(TRUE)

\* the existence checks, when the option loop has ended normally
CheckReferences(p) ==
    IF ~IsOk(p.end) THEN p ELSE Parsed(p.globals, ReferenceChecks(p.globals))

parse_command_line(opts) ==
    IF \E i \in 1..Len(opts) : opts[i].opt \notin KnownOptions
    THEN Parsed(InitialGlobals,
                SysExit(2, "getopt", "An error occurred. Check your parameters and try again."))
    ELSE CheckReferences(ParseOptions(opts, 1, InitialGlobals))

----------------------------------------------------------------------------
(* Files.  A path is [dir, name]; a stage directory is directory/name      *)
(* whether the code spells it with a trailing or a doubled slash.  fs is   *)
(* what a stage function can change outside its arguments: the stage       *)
(* directories, the files in them and in the working directory, and the    *)
(* record of what this run read and wrote.                                 *)

StageDir(directory, name) == directory \o "/" \o name
Path(dir, name) == [dir |-> dir, name |-> name]

Put(f, k, v) == [x \in DOMAIN f \cup {k} |-> IF x = k THEN v ELSE f[x]]

Card(value, comment) == [value |-> value, comment |-> comment]

\* if not os.path.exists(d): os.makedirs(d)
MkDir(fs, d) ==
    IF d \in fs.dirs THEN fs
    ELSE [fs EXCEPT !.dirs = @ \cup {d}, !.wrote = @ \cup {Path(d, "")}]

\* writeto(..., clobber=True), and the output image of an external task
WriteFile(fs, path, content) ==
    [fs EXCEPT !.disk = Put(@, path, content), !.wrote = @ \cup {path}]

WriteCwd(fs, name, content) ==
    [fs EXCEPT !.cwd = Put(@, name, content), !.wrote = @ \cup {Path(".", name)}]

Exists(fs, path) == path \in DOMAIN fs.disk

ReadAttempt(fs, stage, dir) ==
    [fs EXCEPT !.reads = @ \cup {[stage |-> stage, dir |-> dir]}]

\* what a loop over the collection leaves, and how it ended
Left(fs, imgs, end) == [fs |-> fs, imgs |-> imgs, end |-> end]

\* an unevaluated quotient a / b
Frac(a, b) == [num |-> a, den |-> b]

----------------------------------------------------------------------------
(* Conversion *)

\* the body of the loop of convert_images for image i
ConvertOneInPlace(fs, imgs, i) ==
    LET header == imgs[i].header
        instrument == get_instrument(header)
        conversion_factor == get_conversion_factor(header, instrument.value)
        original_filename == imgs[i].filename.basename
        original_directory == imgs[i].filename.dirname
        new_directory == StageDir(original_directory, "converted")
        converted_filename == Path(new_directory, original_filename \o "_converted.fits")
        \* the factor multiplies what is already in the converted file, if any
        source == IF converted_filename \in DOMAIN fs.disk
                  THEN fs.disk[converted_filename].data ELSE imgs[i].data
        converted_data_array ==
            [op |-> "multiply", src |-> source, factor |-> conversion_factor.value]
        new_header ==
            Put(Put(header, "BUNIT", Card("Jy/pixel", "")),
                "JYPXFACT", Card(conversion_factor.value,
                                 "Factor to convert original BUNIT into Jy/pixel."))
    IN  IF ~IsOk(instrument) THEN Left(fs, imgs, instrument)
        ELSE IF ~IsOk(conversion_factor) THEN Left(fs, imgs, conversion_factor)
        ELSE Left(WriteFile(MkDir(fs, new_directory), converted_filename,
                            [data |-> converted_data_array, header |-> new_header]),
                  [imgs EXCEPT ![i].header = new_header],
                  Ok(TRUE))

ConvertOne(fs, imgs, i) ==
    LET header == imgs[i].header
        instrument == get_instrument(header)
        conversion_factor == get_conversion_factor(header, instrument.value)
        original_filename == imgs[i].filename.basename
        original_directory == imgs[i].filename.dirname
        new_directory == StageDir(original_directory, "converted")
        converted_filename == Path(new_directory, original_filename \o "_converted.fits")
        converted_data_array ==
            [op |-> "multiply", src |-> imgs[i].data, factor |-> conversion_factor.value]
        new_header ==
            Put(Put(header, "BUNIT", Card("Jy/pixel", "")),
                "JYPXFACT", Card(conversion_factor.value,
                                 "Factor to convert original BUNIT into Jy/pixel."))
    IN  IF ~IsOk(instrument) THEN Left(fs, imgs, instrument)
        ELSE IF ~IsOk(conversion_factor) THEN Left(fs, imgs, conversion_factor)
        ELSE Left(WriteFile(MkDir(fs, new_directory), converted_filename,
                            [data |-> converted_data_array, header |-> new_header]),
                  [imgs EXCEPT ![i].header = new_header],
                  Ok(TRUE))

RECURSIVE ConvertLoop(_, _, _)
ConvertLoop(fs, imgs, i) ==
    IF i > Len(imgs) THEN Left(fs, imgs, Ok(TRUE))
    ELSE LET r == ConvertOne(fs, imgs, i)
         IN  IF IsOk(r.end) THEN ConvertLoop(r.fs, r.imgs, i + 1) ELSE r

convert_images(fs, imgs) == ConvertLoop(fs, imgs, 1)

----------------------------------------------------------------------------
(* Reference sky position *)

\* the values of keyword over the PACS and SPIRE images, in collection order
RECURSIVE HerschelValues(_, _, _, _)
HerschelValues(imgs, keyword, i, values) ==
    IF i > Len(imgs) THEN Ok(values)
    ELSE LET instrument == get_instrument(imgs[i].header)
         IN  IF ~IsOk(instrument) THEN instrument
             ELSE IF instrument.value \in {"PACS", "SPIRE"}
             THEN IF ~Has(imgs[i].header, keyword) THEN Raise("KeyError")
                  ELSE HerschelValues(imgs, keyword, i + 1,
                                      Append(values, imgs[i].header[keyword].value))
             ELSE HerschelValues(imgs, keyword, i + 1, values)

\* np.mean(values), unevaluated; the mean of no value is nan (a warning, no exception)
get_herschel_mean(imgs, keyword) ==
    LET values == HerschelValues(imgs, keyword, 1, <<>>)
    IN  IF ~IsOk(values) THEN values
        ELSE Ok([from |-> IF values.value = <<>> THEN "nan" ELSE "herschel mean",
                 of |-> values.value])

\* the mean, whatever the user gave
ReferenceCoordinateMean(imgs, input, keyword) == get_herschel_mean(imgs, keyword)

\* ra_input / dec_input when given, else the mean
ReferenceCoordinate(imgs, input, keyword) ==
    IF IsNum(input) THEN Ok([from |-> "user", of |-> <<input.num>>])
    ELSE get_herschel_mean(imgs, keyword)

----------------------------------------------------------------------------
(* External services (IRAF tasks, astropy's convolve): black boxes.  Each  *)
(* returns having written its output, a function of its inputs, or raises; *)
(* fail is the index of the image at whose call the service raises (0:     *)
(* none does).  A task whose input image is missing cannot but raise.      *)

\* phys_size / x in Python: TypeError for the unset phys_size '', and
\* ZeroDivisionError for a zero divisor
Divide(phys_size, x) ==
    IF ~IsNum(phys_size) THEN Raise("TypeError")
    ELSE IF x = 0 THEN Raise("ZeroDivisionError")
    ELSE Ok(Frac(phys_size.num, x))

\* artdata.mkpattern followed by iraf.ccsetwcs on the same image
GridImage(ncols, nlines, xref, yref, xmag, ymag, lngref, latref) ==
    [pattern |-> "constant", ncols |-> ncols, nlines |-> nlines,
     xref |-> xref, yref |-> yref, xmag |-> xmag, ymag |-> ymag,
     lngref |-> lngref, latref |-> latref, project |-> "tan", coosyst |-> "j2000"]

\* q / 3, unevaluated
Third(q) == [third_of |-> q]

\* q / 2, unevaluated
Half(q) == [half_of |-> q]

\* iraf.wregister
Warp(input, reference, fluxconserve) ==
    [data |-> [op |-> "wregister", src |-> input.data, reference |-> reference,
               fluxconserve |-> fluxconserve],
     header |-> input.header]

----------------------------------------------------------------------------
(* Registration *)

\* the body of the loop of register_images for image i
RegisterOne(g, fs, imgs, i, lngref, latref, fail) ==
    LET header == imgs[i].header
        instrument == get_instrument(header)
        native_pixelscale == get_native_pixelscale(header, instrument.value)
        original_filename == imgs[i].filename.basename
        original_directory == imgs[i].filename.dirname
        new_directory == StageDir(original_directory, "registered")
        artificial_filename == Path(new_directory, original_filename \o "_pixelgrid.fits")
        registered_filename == Path(new_directory, original_filename \o "_registered.fits")
        input_directory == StageDir(original_directory, "converted")
        input_filename == Path(input_directory, original_filename \o "_converted.fits")
        fs1 == MkDir(fs, new_directory)
        ncols == Divide(g.phys_size, native_pixelscale.value)
        grid == GridImage(ncols.value, ncols.value, Half(ncols.value), Half(ncols.value),
                          Num(native_pixelscale.value), Num(native_pixelscale.value),
                          lngref, latref)
        fs2 == ReadAttempt(WriteFile(fs1, artificial_filename, grid),
                           "registration", input_directory)
    IN  IF ~IsOk(instrument) THEN Left(fs, imgs, instrument)
        ELSE IF ~IsOk(native_pixelscale) THEN Left(fs, imgs, native_pixelscale)
        ELSE IF ~Has(header, "BUNIT") THEN Left(fs, imgs, Raise("KeyError"))
        ELSE IF ~IsOk(ncols) THEN Left(fs1, imgs, ncols)
        ELSE IF ~Exists(fs2, input_filename) \/ fail = i
             THEN Left(fs2, imgs, Raise("IrafError"))
        ELSE Left(WriteFile(fs2, registered_filename,
                            Warp(fs2.disk[input_filename], grid, "no")),
                  imgs, Ok(TRUE))

RECURSIVE RegisterLoop(_, _, _, _, _, _)
RegisterLoop(g, fs, imgs, i, ref, fail) ==
    IF i > Len(imgs) THEN Left(fs, imgs, Ok(TRUE))
    ELSE LET r == RegisterOne(g, fs, imgs, i, ref[1], ref[2], fail)
         IN  IF IsOk(r.end) THEN RegisterLoop(g, r.fs, imgs, i + 1, ref, fail) ELSE r

\* the two reference coordinates, CRVAL1 first
ReferencePosition(g, imgs) ==
    LET lngref_input == ReferenceCoordinate(imgs, g.ra_input, "CRVAL1")
        latref_input == ReferenceCoordinate(imgs, g.dec_input, "CRVAL2")
    IN  IF ~IsOk(lngref_input) THEN lngref_input
        ELSE IF ~IsOk(latref_input) THEN latref_input
        ELSE Ok(<<lngref_input.value, latref_input.value>>)

register_images(g, fs, imgs, fail) ==
    LET ref == ReferencePosition(g, imgs)
    IN  IF ~IsOk(ref) THEN Left(fs, imgs, ref)
        ELSE RegisterLoop(g, fs, imgs, 1, ref.value, fail)

----------------------------------------------------------------------------
(* Convolution *)

\* the body of the loop of convolve_images for image i
ConvolveOne(fs, imgs, i, fwhm_input, fail) ==
    LET header == imgs[i].header
        instrument == get_instrument(header)
        native_pixelscale == get_native_pixelscale(header, instrument.value)
        original_filename == imgs[i].filename.basename
        original_directory == imgs[i].filename.dirname
        new_directory == StageDir(original_directory, "convolved")
        convolved_filename == Path(new_directory, original_filename \o "_convolved.fits")
        input_directory == StageDir(original_directory, "registered")
        input_filename == Path(input_directory, original_filename \o "_registered.fits")
        fs1 == ReadAttempt(MkDir(fs, new_directory), "convolution", input_directory)
        \* fwhm_input / (2 * sqrt(2 * log(2)) * native_pixelscale)
        sigma_input == Frac(fwhm_input, native_pixelscale.value)
        file == fs1.disk[input_filename]
        conv_result == [op |-> "convolve", src |-> file.data,
                        kernel |-> [kerneltype |-> "gaussian", kernelwidth |-> sigma_input]]
        new_header == Put(file.header, "FWHM",
                          Card(fwhm_input, "The FWHM value used in the convolution step."))
    IN  IF ~IsOk(instrument) THEN Left(fs, imgs, instrument)
        ELSE IF ~IsOk(native_pixelscale) THEN Left(fs, imgs, native_pixelscale)
        ELSE IF native_pixelscale.value = 0 THEN Left(fs, imgs, Raise("ZeroDivisionError"))
        ELSE IF ~Exists(fs1, input_filename) THEN Left(fs1, imgs, Raise("IOError"))
        ELSE IF fail = i THEN Left(fs1, imgs, Raise("ConvolveError"))
        ELSE Left(WriteFile(fs1, convolved_filename,
                            [data |-> conv_result, header |-> new_header]),
                  imgs, Ok(TRUE))

RECURSIVE ConvolveLoop(_, _, _, _, _)
ConvolveLoop(fs, imgs, i, fwhm_input, fail) ==
    IF i > Len(imgs) THEN Left(fs, imgs, Ok(TRUE))
    ELSE LET r == ConvolveOne(fs, imgs, i, fwhm_input, fail)
         IN  IF IsOk(r.end) THEN ConvolveLoop(r.fs, imgs, i + 1, fwhm_input, fail) ELSE r

convolve_images(fs, imgs, fail) ==
    LET fwhm_input == get_fwhm_value(imgs)
    IN  IF ~IsOk(fwhm_input) THEN Left(fs, imgs, fwhm_input)
        ELSE ConvolveLoop(fs, imgs, 1, fwhm_input.value, fail)

----------------------------------------------------------------------------
(* Resampling and the data cube *)

\* the loop of create_data_cube: the resampled images and headers, in order
RECURSIVE CubeLoop(_, _, _, _)
CubeLoop(fs, imgs, i, planes) ==
    IF i > Len(imgs) THEN Left(fs, imgs, Ok(planes))
    ELSE LET original_filename == imgs[i].filename.basename
             original_directory == imgs[i].filename.dirname
             resampled_directory == StageDir(original_directory, "resampled")
             resampled_filename ==
                 Path(resampled_directory, original_filename \o "_resampled.fits")
             fs1 == ReadAttempt(fs, "datacube", resampled_directory)
         IN  IF ~Exists(fs1, resampled_filename) THEN Left(fs1, imgs, Raise("IOError"))
             ELSE CubeLoop(fs1, imgs, i + 1, Append(planes, fs1.disk[resampled_filename]))

create_data_cube(g, fs, imgs) ==
    LET new_directory == StageDir(g.directory, "datacube")
        r == CubeLoop(MkDir(fs, new_directory), imgs, 1, <<>>)
        planes == r.end.value
    IN  IF ~IsOk(r.end) THEN r
        ELSE IF planes = <<>> THEN Left(r.fs, imgs, Raise("IndexError"))
        ELSE Left(WriteFile(r.fs, Path(new_directory, "datacube.fits"),
                            [data |-> [op |-> "stack",
                                       planes |-> [k \in 1..Len(planes) |-> planes[k].data]],
                             header |-> planes[1].header]),
                  imgs, Ok(TRUE))

\* the body of the loop of resample_images for image i
ResampleOne(fs, imgs, i, grid, fail) ==
    LET original_filename == imgs[i].filename.basename
        original_directory == imgs[i].filename.dirname
        new_directory == StageDir(original_directory, "resampled")
        resampled_filename == Path(new_directory, original_filename \o "_resampled.fits")
        input_directory == StageDir(original_directory, "convolved")
        input_filename == Path(input_directory, original_filename \o "_convolved.fits")
        fs1 == ReadAttempt(MkDir(fs, new_directory), "resampling", input_directory)
    IN  IF ~Exists(fs1, input_filename) \/ fail = i
        THEN Left(fs1, imgs, Raise("IrafError"))
        ELSE Left(WriteFile(fs1, resampled_filename,
                            Warp(fs1.disk[input_filename], grid, "yes")),
                  imgs, Ok(TRUE))

RECURSIVE ResampleLoop(_, _, _, _, _)
ResampleLoop(fs, imgs, i, grid, fail) ==
    IF i > Len(imgs) THEN Left(fs, imgs, Ok(TRUE))
    ELSE LET r == ResampleOne(fs, imgs, i, grid, fail)
         IN  IF IsOk(r.end) THEN ResampleLoop(r.fs, imgs, i + 1, grid, fail) ELSE r

\* phys_size / (fwhm_input / NYQUIST_SAMPLING_RATE): a phys_size that was never
\* set is the string '', and a division by 0.0 raises
Parameter1(g, fwhm_input) ==
    IF ~IsNum(g.phys_size) THEN Raise("TypeError")
    ELSE IF fwhm_input.value = 0 THEN Raise("ZeroDivisionError")
    ELSE Ok([dividend |-> g.phys_size.num,
             divisor |-> Frac(fwhm_input.value, NYQUIST_SAMPLING_RATE)])

\* artdata.mkpattern
MkPattern(fs, parameter1) ==
    WriteCwd(fs, "grid_final_resample.fits",
             [pattern |-> "constant", ncols |-> parameter1, nlines |-> parameter1])

\* what iraf.ccsetwcs leaves in grid_final_resample.fits
ResampleGrid(fwhm_input, parameter1, ref) ==
    GridImage(parameter1, parameter1, Half(parameter1), Half(parameter1),
              Frac(fwhm_input, NYQUIST_SAMPLING_RATE),
              Frac(fwhm_input, NYQUIST_SAMPLING_RATE), ref[1], ref[2])

\* create_data_cube(images_with_headers), reached when the loop has ended
CubeAfter(g, r, imgs) ==
    IF ~IsOk(r.end) THEN r ELSE create_data_cube(g, r.fs, imgs)

\* resample_images from the values it computes first
ResampleFrom(g, fs, imgs, fail, fwhm_input, parameter1, ref) ==
    IF ~IsOk(fwhm_input) THEN Left(fs, imgs, fwhm_input)
    ELSE IF ~IsOk(parameter1) THEN Left(fs, imgs, parameter1)
    ELSE IF ~IsOk(ref) THEN Left(MkPattern(fs, parameter1.value), imgs, ref)
    ELSE CubeAfter(g,
             ResampleLoop(WriteCwd(MkPattern(fs, parameter1.value),
                                   "grid_final_resample.fits",
                                   ResampleGrid(fwhm_input.value, parameter1.value, ref.value)),
                          imgs, 1,
                          ResampleGrid(fwhm_input.value, parameter1.value, ref.value), fail),
             imgs)

resample_images(g, fs, imgs, fail) ==
    ResampleFrom(g, fs, imgs, fail, get_fwhm_value(imgs),
                 Parameter1(g, get_fwhm_value(imgs)), ReferencePosition(g, imgs))

----------------------------------------------------------------------------
(* SEDs *)

\* side of the resampled pixel grid the SED study looks at
GridSide == 2

\* the first loop of output_seds: the wavelengths and the resampled images
RECURSIVE SedReadLoop(_, _, _, _, _)
SedReadLoop(fs, imgs, i, wavelengths, all_image_data) ==
    IF i > Len(imgs)
    THEN Left(fs, imgs, Ok([wavelengths |-> wavelengths, all_image_data |-> all_image_data]))
    ELSE LET original_filename == imgs[i].filename.basename
             original_directory == imgs[i].filename.dirname
             new_directory == StageDir(original_directory, "seds")
             input_directory == StageDir(original_directory, "resampled")
             input_filename == Path(input_directory, original_filename \o "_resampled.fits")
             wavelength == get_wavelength(imgs[i].header)
             fs1 == ReadAttempt(MkDir(fs, new_directory), "seds", input_directory)
         IN  IF ~IsOk(wavelength) THEN Left(fs, imgs, wavelength)
             ELSE IF ~Exists(fs1, input_filename) THEN Left(fs1, imgs, Raise("IOError"))
             ELSE SedReadLoop(fs1, imgs, i + 1,
                              Append(wavelengths, wavelength.value.wavelength.num),
                              Append(all_image_data, fs1.disk[input_filename].data))

\* sed_data in append order: image by image, row by row, column by column
SedRows(wavelengths, all_image_data) ==
    LET n == GridSide * GridSide
        row(r) == LET i == (r - 1) \div n + 1
                      j == ((r - 1) % n) \div GridSide
                      k == (r - 1) % GridSide
                  IN  [x |-> j, y |-> k, wavelength |-> wavelengths[i],
                       flux |-> [pixel |-> <<j, k>>, of |-> all_image_data[i]]]
    IN  [r \in 1..(Len(wavelengths) * n) |-> row(r)]

\* tuple order on (x, y, wavelength); rows equal there are ordered by flux,
\* which the model does not evaluate: they keep their order
RowBefore(a, b) ==
    \/ a.x < b.x
    \/ a.x = b.x /\ a.y < b.y
    \/ a.x = b.x /\ a.y = b.y /\ a.wavelength < b.wavelength

RECURSIVE InsertRow(_, _)
InsertRow(sorted, row) ==
    IF sorted = <<>> THEN <<row>>
    ELSE IF RowBefore(row, sorted[Len(sorted)])
         THEN Append(InsertRow(SubSeq(sorted, 1, Len(sorted) - 1), row),
                     sorted[Len(sorted)])
         ELSE Append(sorted, row)

\* sed_data as appended, not sorted
AppendOrder(rows, n) == rows

RECURSIVE SortedRows(_, _)
SortedRows(rows, n) ==
    IF n = 0 THEN <<>> ELSE InsertRow(SortedRows(rows, n - 1), rows[n])

\* the figures, one per group of num_wavelengths rows of the sorted table
RECURSIVE SedFigures(_, _, _, _, _)
SedFigures(fs, data, num_wavelengths, new_directory, i) ==
    IF i * num_wavelengths >= Len(data) THEN fs
    ELSE LET first == data[i * num_wavelengths + 1]
             name == ToString(first.x) \o "_" \o ToString(first.y) \o "_sed.eps"
         IN  SedFigures(WriteFile(fs, Path(new_directory, name),
                                  [figure |-> SubSeq(data, i * num_wavelengths + 1,
                                                     (i + 1) * num_wavelengths)]),
                        data, num_wavelengths, new_directory, i + 1)

output_seds(fs, imgs) ==
    LET num_wavelengths == Len(imgs)
        r == SedReadLoop(fs, imgs, 1, <<>>, <<>>)
        sed_data == SedRows(r.end.value.wavelengths, r.end.value.all_image_data)
        data == SortedRows(sed_data, Len(sed_data))
        fs1 == WriteCwd(r.fs, "test.out", [rows |-> data])
        new_directory == StageDir(imgs[num_wavelengths].filename.dirname, "seds")
    IN  IF ~IsOk(r.end) THEN r
        ELSE IF num_wavelengths = 0 THEN Left(fs1, imgs, Raise("ZeroDivisionError"))
        ELSE Left(SedFigures(fs1, data, num_wavelengths, new_directory, 0), imgs, Ok(TRUE))

----------------------------------------------------------------------------
(* Cleanup *)

CleanedDirs == {"converted", "registered", "convolved", "resampled", "seds"}

cleanup_output_files_of(g, fs, names) ==
    LET gone == {StageDir(g.directory, d) : d \in names} \cap fs.dirs
    IN  [fs EXCEPT !.dirs = @ \ gone,
                   !.disk = [q \in {x \in DOMAIN @ : x.dir \notin gone} |-> @[q]]]

cleanup_output_files(g, fs) == cleanup_output_files_of(g, fs, CleanedDirs)

----------------------------------------------------------------------------
(* Ingestion: the loop over glob's result and the sort by WAVELENG *)

\* the body of the loop over all_files for one raw file
IngestOne(file) ==
    LET w == get_wavelength(file.header)
        wavelength_microns == wavelength_to_microns(w.value.wavelength, w.value.units)
    IN  IF ~IsOk(w) THEN w
        ELSE IF ~IsOk(wavelength_microns) THEN wavelength_microns
        ELSE Ok([data |-> file.data,
                 header |-> Put(file.header, "WAVELENG",
                                Card(wavelength_microns.value, "micron")),
                 \* os.path.splitext(hdulist.filename())[0]
                 filename |-> [dirname |-> file.dirname, basename |-> file.stem]])

RECURSIVE IngestLoop(_, _, _)
IngestLoop(files, i, records) ==
    IF i > Len(files) THEN Ok(records)
    ELSE LET r == IngestOne(files[i])
         IN  IF IsOk(r) THEN IngestLoop(files, i + 1, Append(records, r.value)) ELSE r

\* sorted(..., key=lambda header: header[1]['WAVELENG']): a stable sort
RECURSIVE InsertByWavelength(_, _)
InsertByWavelength(sorted, rec) ==
    IF sorted = <<>> THEN <<rec>>
    ELSE IF rec.header["WAVELENG"].value < sorted[Len(sorted)].header["WAVELENG"].value
         THEN Append(InsertByWavelength(SubSeq(sorted, 1, Len(sorted) - 1), rec),
                     sorted[Len(sorted)])
         ELSE Append(sorted, rec)

RECURSIVE SortPrefix(_, _)
SortPrefix(records, n) ==
    IF n = 0 THEN <<>> ELSE InsertByWavelength(SortPrefix(records, n - 1), records[n])

Unsorted(records) == records

SortedByWavelength(records) == SortPrefix(records, Len(records))

\* glob.glob(directory + "/*.fit*"): the raw files of the directory, in any order
GlobOrders(directory, files) ==
    IF directory # TheDirectory THEN {<<>>}
    ELSE {o \in [1..Cardinality(files) -> files] :
            \A i, j \in 1..Cardinality(files) : i # j => o[i] # o[j]}

----------------------------------------------------------------------------
(* The input directory and the command lines of the study *)

\* most raw files in the input directory
MaxImages == 2
\* most runs over the same directory
MaxRuns == 2

RawFile(stem, ext, header) ==
    [dirname |-> TheDirectory, stem |-> stem, ext |-> ext, header |-> header,
     data |-> [raw |-> stem \o ext]]

\* SPIRE 250 micron, 6.12 arcsec pixels, pointing keywords, no BUNIT
Spire250 ==
    RawFile("s250", ".fits",
            [INSTRUME |-> Card("SPIRE", ""), WAVELENG |-> Card(Fx(250), "micron"),
             CDELT2 |-> Card(-17, "deg"), CRVAL1 |-> Card(105000, "deg"),
             CRVAL2 |-> Card(410000, "deg")])

\* MIPS 24 micron, 2.45 arcsec pixels, BUNIT MJy/sr
Mips24 ==
    RawFile("m24", ".fits",
            [INSTRUME |-> Card("MIPS", ""), WAVELENG |-> Card(Fx(24), "micron"),
             PLTSCALE |-> Card(24500, "arcsec"), CRVAL1 |-> Card(105100, "deg"),
             CRVAL2 |-> Card(410100, "deg"), BUNIT |-> Card("MJy/sr", "")])

\* GALEX FUV, 1520 angstrom, identified by the mission keyword
GalexFuv ==
    RawFile("fuv", ".fit",
            [INF0001 |-> Card("galex_fuv", ""), WAVELENG |-> Card(Fx(1520), "angstrom"),
             CDELT2 |-> Card(-4, "deg"), BUNIT |-> Card("cps", "")])

\* no instrument, mission or origin keyword; same wavelength as Mips24
NoKeys ==
    RawFile("anon", ".fits",
            [WAVELENG |-> Card(Fx(24), "micron"), CDELT2 |-> Card(-4, "deg"),
             BUNIT |-> Card("MJy/sr", "")])

\* an instrument the code does not know and no wavelength keyword, in a file
\* named as the MIPS image but for its extension
OtherNoWavelength ==
    RawFile("m24", ".fit",
            [INSTRUME |-> Card("WFC3", ""), CDELT2 |-> Card(-4, "deg"),
             BUNIT |-> Card("MJy/sr", "")])

Fixtures == {Spire250, Mips24, GalexFuv, NoKeys, OtherNoWavelength}

Directories == {d \in SUBSET Fixtures : Cardinality(d) <= MaxImages}

Opt(opt, arg) == [opt |-> opt, arg |-> arg]

RECURSIVE FlagOptions(_, _)
FlagOptions(flags, i) ==
    IF i > Len(Stages) THEN <<>>
    ELSE (IF Stages[i] \in flags THEN <<Opt("--" \o Stages[i], "")>> ELSE <<>>)
         \o FlagOptions(flags, i + 1)

Defects == {"none", "bad_angular_size", "no_angular_size", "missing_directory",
            "no_directory", "missing_reference_image", "unknown_option"}
Modes == {"process", "cleanup", "help_first", "help_last", "cleanup_help_last"}
RaDec == {"none", "both", "ra", "dec"}

\* the option list getopt returns for one choice of options
CommandLine(flags, mode, defect, radec) ==
    (IF mode = "help_first" THEN <<Opt("--help", "")>> ELSE <<>>)
    \o (CASE defect = "missing_directory" -> <<Opt("--directory", "nodir")>>
          [] defect = "no_directory" -> <<>>
          [] OTHER -> <<Opt("--directory", TheDirectory)>>)
    \o (CASE defect = "bad_angular_size" -> <<Opt("--angular_size", "abc")>>
          [] defect = "no_angular_size" -> <<>>
          [] OTHER -> <<Opt("--angular_size", "120")>>)
    \o FlagOptions(flags, 1)
    \o (IF radec \in {"both", "ra"} THEN <<Opt("--ra", "10.5")>> ELSE <<>>)
    \o (IF radec \in {"both", "dec"} THEN <<Opt("--dec", "41")>> ELSE <<>>)
    \o (IF defect = "missing_reference_image"
        THEN <<Opt("--reference_image", "nofile.fits")>> ELSE <<>>)
    \o (IF defect = "unknown_option" THEN <<Opt("--bogus", "")>> ELSE <<>>)
    \o (IF mode \in {"cleanup", "cleanup_help_last"} THEN <<Opt("--cleanup", "")>> ELSE <<>>)
    \o (IF mode \in {"help_last", "cleanup_help_last"} THEN <<Opt("--help", "")>> ELSE <<>>)

\* the stage flags that accompany --cleanup, --help and the defects
FewFlags == {{}, {"conversion"}, StageSet}

\* Processing runs with every set of stage flags, without and with a reference
\* position, and with half a position when every stage runs; every mode and
\* defect with few sets of flags.
CommandLines ==
    {CommandLine(flags, "process", "none", radec) :
        flags \in SUBSET StageSet, radec \in {"none", "both"}}
    \cup {CommandLine(StageSet, "process", "none", radec) : radec \in RaDec}
    \cup {CommandLine(c[1], c[2], c[3], "none") : c \in FewFlags \X Modes \X Defects}

\* what the command line asks for, read off the option list
Given(opts, name) == \E i \in 1..Len(opts) : opts[i].opt = name
Flags(opts) == {f \in StageSet : Given(opts, "--" \o f)}
ArgOf(opts, name) == opts[CHOOSE i \in 1..Len(opts) : opts[i].opt = name].arg

----------------------------------------------------------------------------
(* __main__, run after run over the same directory *)

EmptyDisk == [x \in {} |-> 0]

FS == [disk |-> disk, dirs |-> dirs, cwd |-> cwdFiles, reads |-> reads, wrote |-> wrote]

\* the run's effects on the file system
Effects(fs) ==
    /\ disk' = fs.disk
    /\ dirs' = fs.dirs
    /\ cwdFiles' = fs.cwd
    /\ reads' = fs.reads
    /\ wrote' = fs.wrote

\* the process ends: sys.exit(status), or an uncaught exception (status 1
\* and a traceback)
Ends(end) ==
    /\ pc' = "exit"
    /\ exitStatus' = IF end.kind = "exit" THEN end.status ELSE 1
    /\ cause' = IF end.kind = "exit" THEN end.why ELSE end.exc
    /\ diag' = IF end.kind = "exit" THEN end.message ELSE "Traceback: " \o end.exc

Continues(next) ==
    /\ pc' = next
    /\ UNCHANGED <<exitStatus, cause, diag>>

\* falling off the end of the script
Completes ==
    /\ pc' = "exit"
    /\ exitStatus' = 0
    /\ cause' = "completed"
    /\ diag' = ""

Init ==
    /\ inputDir \in Directories
    /\ dirs = {}
    /\ disk = EmptyDisk
    /\ cwdFiles = EmptyDisk
    /\ argv \in CommandLines
    /\ globals = InitialGlobals
    /\ pc = "parse"
    /\ all_files = <<>>
    /\ images_with_headers = <<>>
    /\ exitStatus = -1
    /\ cause = "running"
    /\ diag = ""
    /\ executed = <<>>
    /\ completed = <<>>
    /\ reads = {}
    /\ wrote = {}
    /\ run = 1
    /\ prev = [completed |-> FALSE, argv |-> <<>>, disk |-> EmptyDisk, dirs |-> {},
               cwd |-> EmptyDisk]
    /\ fwhm_images = <<>>
    /\ fwhm_result = -1
    /\ scale_image = <<>>
    /\ scale_grid = Unset
    /\ scale_kernel = Unset
    /\ worker_directory = ""
    /\ worker_dirs = {}
    /\ worker_pc = <<>>
    /\ worker_wrote = {}
    /\ wavelength_header = EmptyHeader
    /\ wavelength_result = Unset
    /\ instrument_header = EmptyHeader
    /\ instrument_result = Unset
    /\ sed_images = <<>>
    /\ sed_table = Unset
    /\ factor_header = EmptyHeader
    /\ factor_result = Unset

\* "if (do_cleanup): cleanup_output_files(); sys.exit()" against going on to read
\* the images
AfterParseIngest(g) == "ingest"

AfterParse(g) == IF g.do_cleanup THEN "cleanup" ELSE "ingest"

\* parse_command_line(), and the test of do_cleanup that follows it
Parse ==
    /\ pc = "parse"
    /\ \E p \in {parse_command_line(argv)} :
          /\ globals' = p.globals
          /\ IF ~IsOk(p.end) THEN Ends(p.end) ELSE Continues(AfterParse(p.globals))
    /\ UNCHANGED <<scaleVars, workerVars, wavelengthVars, instrumentVars, sedVars, factorVars, inputDir, dirs, disk, cwdFiles, argv, all_files, images_with_headers,
                   executed, completed, reads, wrote, run, prev, fwhm_images, fwhm_result>>

\* cleanup_output_files(); sys.exit()
Cleanup ==
    /\ pc = "cleanup"
    /\ Effects(cleanup_output_files(globals, FS))
    /\ Ends(SysExit(0, "cleanup", "Cleaning up output files."))
    /\ UNCHANGED <<scaleVars, workerVars, wavelengthVars, instrumentVars, sedVars, factorVars, inputDir, argv, globals, all_files, images_with_headers, executed,
                   completed, run, prev, fwhm_images, fwhm_result>>

\* reading every file glob found, and sorting the collection
Ingest ==
    /\ pc = "ingest"
    /\ \E files \in GlobOrders(globals.directory, inputDir) :
          /\ all_files' = files
          /\ \E r \in {IngestLoop(files, 1, <<>>)} :
                IF IsOk(r)
                THEN /\ images_with_headers' = SortedByWavelength(r.value)
                     /\ Continues("conversion")
                ELSE /\ UNCHANGED images_with_headers
                     /\ Ends(r)
    /\ UNCHANGED <<scaleVars, workerVars, wavelengthVars, instrumentVars, sedVars, factorVars, inputDir, dirs, disk, cwdFiles, argv, globals, executed, completed,
                   reads, wrote, run, prev, fwhm_images, fwhm_result>>

\* "if (do_<stage>): <stage function>(images_with_headers)" of __main__ when the
\* stage function is called: r is what it leaves
StageRuns(stage, enabled, r, next) ==
    /\ pc = stage
    /\ executed' = Append(executed, stage)
    /\ Effects(r.fs)
    /\ images_with_headers' = r.imgs
    /\ IF IsOk(r.end)
       THEN /\ completed' = Append(completed, stage)
            /\ IF next = "exit" THEN Completes ELSE Continues(next)
       ELSE /\ UNCHANGED completed
            /\ Ends(r.end)
    /\ UNCHANGED <<scaleVars, workerVars, wavelengthVars, instrumentVars, sedVars, factorVars, inputDir, argv, globals, all_files, run, prev, fwhm_images, fwhm_result>>

\* the same statement when the flag is not set
StageSkipped(stage, enabled, r, next) ==
    /\ pc = stage
    /\ IF next = "exit" THEN Completes ELSE Continues(next)
    /\ UNCHANGED <<scaleVars, workerVars, wavelengthVars, instrumentVars, sedVars, factorVars, executed, completed, images_with_headers, disk, dirs, cwdFiles, reads,
                   wrote, inputDir, argv, globals, all_files, run, prev, fwhm_images,
                   fwhm_result>>

\* the stage function called whether or not its flag is set
StageAlways(stage, enabled, r, next) == StageRuns(stage, enabled, r, next)

StageStep(stage, enabled, r, next) ==
    IF enabled THEN StageRuns(stage, enabled, r, next)
    ELSE StageSkipped(stage, enabled, r, next)

Conversion ==
    StageStep("conversion", globals.do_conversion,
              convert_images(FS, images_with_headers), "registration")

Registration ==
    \E fail \in 0..Len(images_with_headers) :
        StageStep("registration", globals.do_registration,
                  register_images(globals, FS, images_with_headers, fail), "convolution")

Convolution ==
    \E fail \in 0..Len(images_with_headers) :
        StageStep("convolution", globals.do_convolution,
                  convolve_images(FS, images_with_headers, fail), "resampling")

Resampling ==
    \E fail \in 0..Len(images_with_headers) :
        StageStep("resampling", globals.do_resampling,
                  resample_images(globals, FS, images_with_headers, fail), "seds")

Seds ==
    StageStep("seds", globals.do_seds, output_seds(FS, images_with_headers), "exit")

\* the user runs the script again on the same directory
StartRun ==
    /\ pc = "exit"
    /\ run < MaxRuns
    /\ run' = run + 1
    /\ argv' \in CommandLines
    /\ prev' = [completed |-> cause = "completed",
                argv |-> IF cause = "completed" THEN argv ELSE <<>>,
                disk |-> disk, dirs |-> dirs, cwd |-> cwdFiles]
    /\ globals' = InitialGlobals
    /\ pc' = "parse"
    /\ all_files' = <<>>
    /\ images_with_headers' = <<>>
    /\ exitStatus' = -1
    /\ cause' = "running"
    /\ diag' = ""
    /\ executed' = <<>>
    /\ completed' = <<>>
    /\ reads' = {}
    /\ wrote' = {}
    /\ UNCHANGED <<scaleVars, workerVars, wavelengthVars, instrumentVars, sedVars, factorVars, inputDir, dirs, disk, cwdFiles, fwhm_images, fwhm_result>>

Next ==
    \/ Parse
    \/ Cleanup
    \/ Ingest
    \/ Conversion
    \/ Registration
    \/ Convolution
    \/ Resampling
    \/ Seds
    \/ StartRun

Spec == Init /\ [][Next]_vars

----------------------------------------------------------------------------
(* Properties of a run *)

\* the enabled stages of a command line, in the pipeline's order
StageIndex(stage) == CHOOSE i \in 1..Len(Stages) : Stages[i] = stage

EnabledStages(opts) ==
    LET enabled(stage) == stage \in Flags(opts)
    IN  SelectSeq(Stages, enabled)

EnabledBefore(opts, stage) ==
    LET earlier(x) == x \in Flags(opts) /\ StageIndex(x) < StageIndex(stage)
    IN  SelectSeq(Stages, earlier)

IsPrefix(a, b) == Len(a) <= Len(b) /\ a = SubSeq(b, 1, Len(a))

CleanupOrHelpGiven == Given(argv, "--cleanup") \/ Given(argv, "--help")

\* C1: in a run without --cleanup and --help the stage functions called are, at
\* every moment, the first enabled stages in the order conversion,
\* registration, convolution, resampling, seds, each once and no disabled one;
\* when __main__ stands before a stage every enabled earlier stage has
\* returned; and the run falls off the end of the script only when every
\* enabled stage has returned.
C1_EnabledStagesInOrder ==
    ~CleanupOrHelpGiven =>
        /\ IsPrefix(executed, EnabledStages(argv))
        /\ IsPrefix(completed, executed)
        /\ Len(executed) <= Len(completed) + 1
        /\ pc \in StageSet =>
              /\ executed = EnabledBefore(argv, pc)
              /\ completed = executed
        /\ cause = "completed" =>
              /\ executed = EnabledStages(argv)
              /\ completed = EnabledStages(argv)

\* a run of all five stages that fell off the end of the script
C1_Witness ==
    /\ ~CleanupOrHelpGiven
    /\ pc = "exit"
    /\ cause = "completed"
    /\ completed = Stages

\* the directory a stage function writes its images to
OutputOf(stage) ==
    CASE stage = "conversion" -> "converted"
      [] stage = "registration" -> "registered"
      [] stage = "convolution" -> "convolved"
      [] stage = "resampling" -> "resampled"
      [] stage = "seds" -> "seds"

\* C2: every directory a stage function tries to read its input images from is
\* the output directory of the last enabled stage before it, when there is one.
C2_ReadsLatestEnabledPredecessor ==
    \A rd \in reads :
        rd.stage \in StageSet /\ EnabledBefore(argv, rd.stage) # <<>> =>
            LET before == EnabledBefore(argv, rd.stage)
            IN  rd.dir = StageDir(globals.directory, OutputOf(before[Len(before)]))

\* the directories the stage functions create under the input directory
StageDirectoryNames ==
    {"converted", "registered", "convolved", "resampled", "seds", "datacube"}

\* C3: when a run has ended with the cleanup of the input directory, none of
\* converted, registered, convolved, resampled, seds, datacube is left in it.
C3_CleanupLeavesNoStageDirectory ==
    pc = "exit" /\ cause = "cleanup" /\ globals.directory = TheDirectory =>
        \A d \in StageDirectoryNames : StageDir(TheDirectory, d) \notin dirs

\* a command line that parse_command_line refuses for a reason other than
\* --help: an option getopt does not know, an argument float() refuses, a
\* directory or a reference image that is not there
Refused(opts) ==
    \E i \in 1..Len(opts) :
        \/ opts[i].opt \notin KnownOptions
        \/ opts[i].opt \in {"--angular_size", "--ra", "--dec"} /\ opts[i].arg \notin NumericArgs
        \/ opts[i].opt = "--directory" /\ ~isdir(opts[i].arg)
        \/ /\ opts[i].opt \in {"--reference_image", "--convolution_reference_image"}
           /\ ~CanOpen(TheDirectory \o "/" \o opts[i].arg)

\* C4: when --cleanup or --help is on the command line, whatever stage flags
\* are with it, the run never reads an image, calls no stage function and
\* writes nothing, and __main__ goes no further than the cleanup; unless
\* the command line is refused, the run ends with status 0 after the usage
\* text (--help) or after the cleanup (--cleanup without --help).
C4_CleanupAndHelpDoNoProcessing ==
    CleanupOrHelpGiven =>
        /\ pc \in {"parse", "cleanup", "exit"}
        /\ all_files = <<>>
        /\ images_with_headers = <<>>
        /\ executed = <<>>
        /\ wrote = {}
        /\ reads = {}
        /\ pc = "exit" /\ ~Refused(argv) =>
              /\ exitStatus = 0
              /\ cause = IF Given(argv, "--help") THEN "help" ELSE "cleanup"

\* --cleanup together with all five stage flags, ended, with images in the directory
C4_Witness ==
    /\ Given(argv, "--cleanup")
    /\ ~Given(argv, "--help")
    /\ Flags(argv) = StageSet
    /\ inputDir # {}
    /\ pc = "exit"
    /\ cause = "cleanup"
    /\ exitStatus = 0

\* the run repeats the command line of the run before it, which fell off the
\* end of the script
Rerun == run > 1 /\ prev.completed /\ argv = prev.argv

\* the run has not been cut short: the external services, given the same
\* inputs as in the run before, have answered as they did then
NotCutShort == pc = "exit" => cause = "completed"

\* C5: while and after a run repeats the command line of a run that ran to its
\* end on the same raw images, and is not cut short by an external service
\* failing where it did not fail before, the stage directories, the files in
\* them, their contents and the files of the working directory are those the
\* earlier run left; every converted image is the raw pixels times the factor.
C5_RerunLeavesTheSameArtifacts ==
    Rerun /\ NotCutShort =>
        /\ dirs = prev.dirs
        /\ disk = prev.disk
        /\ cwdFiles = prev.cwd
        /\ \A q \in DOMAIN disk :
              q.dir = StageDir(TheDirectory, "converted") =>
                  \E f \in inputDir :
                      /\ q.name = f.stem \o "_converted.fits"
                      /\ disk[q].data.op = "multiply"
                      /\ disk[q].data.src = f.data

\* a second run of all five stages over two images, ended as the first did
C5_Witness ==
    /\ Rerun
    /\ pc = "exit"
    /\ cause = "completed"
    /\ completed = Stages
    /\ Cardinality(inputDir) = 2
    /\ \A f \in inputDir :
          Path(StageDir(TheDirectory, "converted"), f.stem \o "_converted.fits") \in wrote

\* the run before this one ran conversion alone to its end over the images of
\* the directory, and this run asks for registration alone over the same
\* directory, the converted images being on disk
RegistrationResumed ==
    /\ run > 1
    /\ prev.completed
    /\ Flags(prev.argv) = {"conversion"}
    /\ Flags(argv) = {"registration"}
    /\ ~CleanupOrHelpGiven
    /\ \A opts \in {prev.argv, argv} :
          ~Refused(opts) /\ Given(opts, "--angular_size") /\ Given(opts, "--directory")
    /\ inputDir # {}
    /\ \A f \in inputDir :
          Path(StageDir(TheDirectory, "converted"), f.stem \o "_converted.fits")
              \in DOMAIN disk

\* C6: a run of registration alone, after a run of conversion alone left the
\* converted images on disk, runs to its end whenever the external tasks do
\* not fail.
C6_RegistrationAloneCompletes ==
    RegistrationResumed /\ pc = "exit" /\ cause # "IrafError" => cause = "completed"

\* the collection holds the raw files, each once
HoldsTheFiles ==
    /\ Len(images_with_headers) = Len(all_files)
    /\ \A i \in 1..Len(all_files) :
          \E j \in 1..Len(images_with_headers) :
              /\ images_with_headers[j].data = all_files[i].data
              /\ LET w == get_wavelength(all_files[i].header).value
                 IN  images_with_headers[j].header["WAVELENG"].value
                         = wavelength_to_microns(w.wavelength, w.units).value

Microns(i) == images_with_headers[i].header["WAVELENG"].value

\* C7: once the images are read, before and after every stage and at the end
\* of the run, the collection holds every file glob returned, in non-decreasing
\* order of its wavelength in microns, whatever order glob returned them in.
C7_CollectionSortedByMicrons ==
    pc \in StageSet \/ (pc = "exit" /\ (executed # <<>> \/ cause = "completed")) =>
        /\ HoldsTheFiles
        /\ \A i, j \in 1..Len(images_with_headers) : i < j => Microns(i) <= Microns(j)

\* glob returned the 250 micron image before the 1520 angstrom one, and a
\* stage has run
C7_Witness ==
    /\ Len(all_files) = 2
    /\ all_files[1].stem = "s250"
    /\ all_files[2].stem = "fuv"
    /\ images_with_headers[1].filename.basename = "fuv"
    /\ "conversion" \in {completed[k] : k \in 1..Len(completed)}
    /\ pc = "exit"

NoInstrumentKey(header) ==
    ~Has(header, "INSTRUME") /\ ~Has(header, "INF0001") /\ ~Has(header, "ORIGIN")

\* the stage functions that ask for the instrument of every image
ResolvingStages == {"conversion", "registration", "convolution", "resampling"}

\* C8: for an image whose header has none of INSTRUME, INF0001 and ORIGIN,
\* get_instrument returns nothing but calls sys.exit; no stage function that
\* resolves instruments returns while such an image is in the collection.
C8_NoInstrumentKeyAborts ==
    \A i \in 1..Len(images_with_headers) :
        NoInstrumentKey(images_with_headers[i].header) =>
            /\ get_instrument(images_with_headers[i].header).kind = "exit"
            /\ \A k \in 1..Len(completed) : completed[k] \notin ResolvingStages

\* a stage function reached an image without instrument keys and the run ended there
C8_Witness ==
    /\ \E i \in 1..Len(images_with_headers) :
          NoInstrumentKey(images_with_headers[i].header)
    /\ executed = <<"conversion">>
    /\ completed = <<>>
    /\ pc = "exit"
    /\ cause = "instrument"

\* the ends the failure contract names: float() of a malformed number, a
\* directory that is not there, a reference image that is not there, an
\* instrument that cannot be resolved, a common FWHM of 0
FailureCauses ==
    {"ValueError", "directory", "reference_image", "instrument", "ZeroDivisionError"}

\* C9: every run that ends for one of the failure causes ends with a status
\* other than 0 and a message; a run that ends with status 0 has printed the
\* usage, cleaned up, or run to its end.
C9_FailuresEndNonZero ==
    pc = "exit" =>
        /\ cause \in FailureCauses => exitStatus # 0 /\ diag # ""
        /\ exitStatus = 0 => cause \in {"help", "cleanup", "completed"}

----------------------------------------------------------------------------
(* The common FWHM on its own: get_fwhm_value over collections of images   *)
(* of the far-infrared instruments, with wavelengths on, inside and next   *)
(* to the bands of the table.                                              *)

\* most images in a collection of the lookup study
MaxFwhmImages == 2

FwhmInstruments == {"MIPS", "SPIRE", "PACS", "IRAC"}

\* wavelengths in microns, fixed point
FwhmWavelengths ==
    {Fx(w) : w \in {17, 18, 30, 31, 50, 70, 90, 100, 110, 139, 140, 160, 170, 180,
                    200, 250, 299, 300, 350, 400, 490, 500, 510, 511}} \cup {2995000}

\* an image as it stands in the collection after ingestion
FwhmImage(instrument, wavelength) ==
    [data |-> [raw |-> instrument],
     header |-> [INSTRUME |-> Card(instrument, ""), WAVELENG |-> Card(wavelength, "micron")],
     filename |-> [dirname |-> TheDirectory, basename |-> instrument]]

FwhmImages == {FwhmImage(k, w) : k \in FwhmInstruments, w \in FwhmWavelengths}

FwhmCollections ==
    UNION {[1..n -> FwhmImages] : n \in 0..MaxFwhmImages}

Orders(seq) ==
    {[i \in 1..Len(seq) |-> seq[f[i]]] :
        f \in {g \in [1..Len(seq) -> 1..Len(seq)] :
                 \A i, j \in 1..Len(seq) : i # j => g[i] # g[j]}}

InitFwhm ==
    /\ inputDir = {}
    /\ dirs = {}
    /\ disk = EmptyDisk
    /\ cwdFiles = EmptyDisk
    /\ argv = <<>>
    /\ globals = InitialGlobals
    /\ pc = "fwhm"
    /\ all_files = <<>>
    /\ images_with_headers = <<>>
    /\ exitStatus = -1
    /\ cause = "running"
    /\ diag = ""
    /\ executed = <<>>
    /\ completed = <<>>
    /\ reads = {}
    /\ wrote = {}
    /\ run = 1
    /\ prev = [completed |-> FALSE, argv |-> <<>>, disk |-> EmptyDisk, dirs |-> {},
               cwd |-> EmptyDisk]
    /\ fwhm_images \in FwhmCollections
    /\ fwhm_result = -1
    /\ scale_image = <<>>
    /\ scale_grid = Unset
    /\ scale_kernel = Unset
    /\ worker_directory = ""
    /\ worker_dirs = {}
    /\ worker_pc = <<>>
    /\ worker_wrote = {}
    /\ wavelength_header = EmptyHeader
    /\ wavelength_result = Unset
    /\ instrument_header = EmptyHeader
    /\ instrument_result = Unset
    /\ sed_images = <<>>
    /\ sed_table = Unset
    /\ factor_header = EmptyHeader
    /\ factor_result = Unset

\* fwhm_input = get_fwhm_value(images_with_headers)
LookupFwhm ==
    /\ pc = "fwhm"
    /\ fwhm_result' = get_fwhm_value(fwhm_images).value
    /\ UNCHANGED <<scaleVars, workerVars, wavelengthVars, instrumentVars, sedVars, factorVars, inputDir, dirs, disk, cwdFiles, argv, globals, pc, all_files,
                   images_with_headers, exitStatus, cause, diag, executed, completed,
                   reads, wrote, run, prev, fwhm_images>>

\* the same images in another order
ReorderFwhm ==
    /\ pc = "fwhm"
    /\ fwhm_images' \in Orders(fwhm_images) \ {fwhm_images}
    /\ UNCHANGED <<scaleVars, workerVars, wavelengthVars, instrumentVars, sedVars, factorVars, inputDir, dirs, disk, cwdFiles, argv, globals, pc, all_files,
                   images_with_headers, exitStatus, cause, diag, executed, completed,
                   reads, wrote, run, prev, fwhm_result>>

NextFwhm ==
    \/ LookupFwhm
    \/ ReorderFwhm

SpecFwhm == InitFwhm /\ [][NextFwhm]_vars

\* the table of the contract: instrument, closed band in microns, FWHM in
\* arcseconds (fixed point)
FwhmRule(instrument, lower, upper, fwhm) ==
    [instrument |-> instrument, lower |-> Fx(lower), upper |-> Fx(upper), fwhm |-> fwhm]

FwhmTable ==
    << FwhmRule("MIPS", 140, 170, Fx(76)), FwhmRule("SPIRE", 490, 510, Fx(43)),
       FwhmRule("MIPS", 50, 90, Fx(37)), FwhmRule("SPIRE", 300, 400, Fx(30)),
       FwhmRule("SPIRE", 200, 299, Fx(22)), FwhmRule("PACS", 140, 180, Fx(18)),
       FwhmRule("MIPS", 18, 30, Fx(13)), FwhmRule("PACS", 90, 110, 125000),
       FwhmRule("PACS", 60, 80, 105000) >>

RuleMatches(rule, images) ==
    \E i \in 1..Len(images) :
        /\ images[i].header["INSTRUME"].value = rule.instrument
        /\ images[i].header["WAVELENG"].value >= rule.lower
        /\ images[i].header["WAVELENG"].value <= rule.upper

MatchingRules(images) == {k \in 1..Len(FwhmTable) : RuleMatches(FwhmTable[k], images)}

FirstMatch(images) ==
    IF MatchingRules(images) = {} THEN 0
    ELSE FwhmTable[CHOOSE k \in MatchingRules(images) :
                       \A m \in MatchingRules(images) : k <= m].fwhm

\* C10: the value get_fwhm_value returned for a collection is the FWHM of the
\* first rule of the table that some image of the collection matches, 0 when
\* none does, whatever the order of the images is now; and get_fwhm_value
\* returns that value for every order of the same images.
C10_FwhmIsFirstMatchingRule ==
    fwhm_result # -1 =>
        /\ fwhm_result = FirstMatch(fwhm_images)
        /\ \A p \in Orders(fwhm_images) : get_fwhm_value(p).value = fwhm_result

\* two rules match (MIPS 50-90 and SPIRE 490-510), the later image matching
\* the earlier rule, and the lookup has returned 43
C10_Witness ==
    /\ Len(fwhm_images) = 2
    /\ fwhm_images[1].header["INSTRUME"].value = "MIPS"
    /\ fwhm_images[1].header["WAVELENG"].value = Fx(70)
    /\ fwhm_images[2].header["INSTRUME"].value = "SPIRE"
    /\ fwhm_images[2].header["WAVELENG"].value = Fx(510)
    /\ fwhm_result = Fx(43)

\* a collection of SPIRE images only, at 250 and at 350 microns
Spire250And350 ==
    /\ fwhm_images # <<>>
    /\ \A i \in 1..Len(fwhm_images) : fwhm_images[i].header["INSTRUME"].value = "SPIRE"
    /\ {fwhm_images[i].header["WAVELENG"].value : i \in 1..Len(fwhm_images)}
           = {Fx(250), Fx(350)}

\* C11: for a collection of SPIRE images only, with wavelengths 250 and 350
\* microns, get_fwhm_value returns 30, the value of SPIRE 300-400, the first
\* rule of the table that matches (no image lies in SPIRE 490-510).
C11_Spire250And350Give30 ==
    Spire250And350 /\ fwhm_result # -1 => fwhm_result = Fx(30)

\* C11 as stated: the same collection yields 43
C11_Spire250And350Give43 ==
    Spire250And350 /\ fwhm_result # -1 => fwhm_result = Fx(43)

\* the lookup has returned for the 350 micron image followed by the 250 micron one
C11_Witness ==
    /\ Spire250And350
    /\ fwhm_images[1].header["WAVELENG"].value = Fx(350)
    /\ fwhm_result = Fx(30)

----------------------------------------------------------------------------
(* Calibration failures in a run *)

Completed(stage) == \E k \in 1..Len(completed) : completed[k] = stage

Executed(stage) == \E k \in 1..Len(executed) : executed[k] = stage

\* the files this run wrote into the directory a stage writes its images to
WrittenBy(stage) ==
    {q \in wrote : q.dir = StageDir(TheDirectory, OutputOf(stage)) /\ q.name # ""}

\* no rule of the table matches the images of the collection
CommonFwhmIsZero ==
    /\ images_with_headers # <<>>
    /\ get_fwhm_value(images_with_headers) = Ok(0)

\* C12: when the common FWHM of the collection is 0, neither convolve_images
\* nor resample_images returns, neither writes a convolved or a resampled
\* image, and the run they end has a status other than 0.
C12_ZeroFwhmAbortsConvolutionAndResampling ==
    CommonFwhmIsZero =>
        \A stage \in {"convolution", "resampling"} :
            /\ ~Completed(stage)
            /\ WrittenBy(stage) = {}
            /\ pc = "exit" /\ executed # <<>> /\ executed[Len(executed)] = stage =>
                  exitStatus # 0

\* the conversion factor of image i of the collection evaluates to 0
ZeroFactor(i) ==
    LET header == images_with_headers[i].header
        instrument == get_instrument(header)
    IN  /\ IsOk(instrument)
        /\ IsOk(get_conversion_factor(header, instrument.value))
        /\ get_conversion_factor(header, instrument.value).value.zero

\* C13: when the conversion factor of an image of the collection is 0,
\* convert_images does not return, the image's header gets no JYPXFACT, and no
\* file of converted/ holds pixels multiplied by a factor of 0.
C13_ZeroFactorNeverApplied ==
    /\ \A i \in 1..Len(images_with_headers) :
          ZeroFactor(i) =>
              /\ ~Completed("conversion")
              /\ ~Has(images_with_headers[i].header, "JYPXFACT")
    /\ \A q \in DOMAIN disk :
          q.dir = StageDir(TheDirectory, "converted") => ~disk[q].data.factor.zero

\* the run has ingested images, the user gave neither --ra nor --dec, and no
\* image of the collection is a PACS or SPIRE image
NoReferencePosition ==
    /\ images_with_headers # <<>>
    /\ ~IsNum(globals.ra_input) /\ ~IsNum(globals.dec_input)
    /\ \A i \in 1..Len(images_with_headers) :
          get_instrument(images_with_headers[i].header) \notin {Ok("PACS"), Ok("SPIRE")}

\* C15: with no user RA/Dec and no PACS or SPIRE image, register_images and
\* resample_images do not return and write nothing (no pixel grid, no warped
\* image).
C15_NoReferencePositionAborts ==
    NoReferencePosition =>
        \A stage \in {"registration", "resampling"} :
            ~Completed(stage) /\ WrittenBy(stage) = {}


\* the header carries one of the keywords get_wavelength looks for
HasWavelengthKeyword(header) ==
    Has(header, "WAVELENG") \/ Has(header, "WAVELNTH") \/ Has(header, "FILTER")

\* C16: a raw file whose header has none of WAVELENG, WAVELNTH and FILTER
\* never becomes a record of the working collection.
C16_NoWavelengthKeywordIsRejected ==
    \A file \in inputDir :
        ~HasWavelengthKeyword(file.header) =>
            \A i \in 1..Len(images_with_headers) :
                images_with_headers[i].data # file.data

\* the file a stage reads or writes for an image of the collection
StageFile(image, directory, suffix) ==
    Path(StageDir(image.filename.dirname, directory), image.filename.basename \o suffix)

\* the run ended in the stage by the exception of its external call, with
\* the input file of every image of the collection on disk
ExternalFailureIn(stage) ==
    /\ pc = "exit" /\ executed # <<>> /\ executed[Len(executed)] = stage
    /\ \/ /\ stage = "registration" /\ cause = "IrafError"
          /\ \A i \in 1..Len(images_with_headers) :
                StageFile(images_with_headers[i], "converted", "_converted.fits")
                    \in DOMAIN disk
       \/ stage = "convolution" /\ cause = "ConvolveError"

\* C17: when wregister or convolve fails for one image, register_images or
\* convolve_images still returns, the output file of every other image of the
\* collection is written, and the diagnostic names the stage.
C17_ExternalFailureIsSurvived ==
    \A stage \in {"registration", "convolution"} :
        ExternalFailureIn(stage) =>
            /\ Completed(stage)
            /\ diag # "Traceback: " \o cause
            /\ Cardinality({i \in 1..Len(images_with_headers) :
                   StageFile(images_with_headers[i], OutputOf(stage),
                             IF stage = "registration" THEN "_registered.fits"
                             ELSE "_convolved.fits") \notin DOMAIN disk}) <= 1

\* a command line with a configuration error: no --angular_size or one that
\* is not a number, no --directory or one that is not a directory, a
\* reference image that cannot be opened
ConfigurationError(opts) ==
    \/ ~Given(opts, "--angular_size")
    \/ ~Given(opts, "--directory")
    \/ \E i \in 1..Len(opts) :
          \/ opts[i].opt = "--angular_size" /\ opts[i].arg \notin NumericArgs
          \/ opts[i].opt = "--directory" /\ ~isdir(opts[i].arg)
          \/ /\ opts[i].opt \in {"--reference_image", "--convolution_reference_image"}
             /\ ~CanOpen(TheDirectory \o "/" \o opts[i].arg)

\* C18: in a run whose command line has a configuration error no file is
\* globbed, no image enters the collection, no stage function is called and
\* nothing is written.
C18_ConfigurationErrorStopsTheRun ==
    ConfigurationError(argv) =>
        /\ all_files = <<>>
        /\ images_with_headers = <<>>
        /\ executed = <<>>
        /\ wrote = {}

\* the per-image files of the stages: directory and suffix
OutputNames ==
    {<<"converted", "_converted.fits">>, <<"registered", "_pixelgrid.fits">>,
     <<"registered", "_registered.fits">>, <<"convolved", "_convolved.fits">>,
     <<"resampled", "_resampled.fits">>}

\* C19: two images of the collection, which come from two files of the input
\* directory, have different output paths in every stage.
C19_DistinctFilesDistinctOutputPaths ==
    \A i, j \in 1..Len(images_with_headers) :
        i # j =>
            \A n \in OutputNames :
                StageFile(images_with_headers[i], n[1], n[2])
                    # StageFile(images_with_headers[j], n[1], n[2])

\* the subdirectories of the input directory a stage may create and fill
OwnDirectories(stage) ==
    IF stage = "resampling" THEN {"resampled", "datacube"} ELSE {OutputOf(stage)}

\* C21: whatever a run has created or written lies in the own subdirectory
\* of a stage function it has called: nothing in the current working
\* directory, nothing in the directory of a stage that was not called.
C21_StagesWriteOnlyTheirOwnDirectory ==
    \A q \in wrote :
        \E k \in 1..Len(executed) :
            \E d \in OwnDirectories(executed[k]) : q.dir = StageDir(TheDirectory, d)

\* the record ingestion makes of a raw file whose header says 1 micron
GenuineOneMicron(file) ==
    IngestOne([file EXCEPT !.header = Put(@, "WAVELENG", Card(FxOne, "micron"))]).value

\* C25: a record made from a raw file whose wavelength unit is micron keeps
\* the wavelength, one whose unit is angstrom has it divided by 10000, and
\* one whose unit is neither differs from the record the same file would
\* give with a genuine wavelength of 1 micron.
C25_SentinelIsDistinguishable ==
    \A file \in inputDir : \A i \in 1..Len(images_with_headers) :
        images_with_headers[i].data = file.data /\ IsOk(get_wavelength(file.header)) =>
            LET w == get_wavelength(file.header).value
                stored == images_with_headers[i].header["WAVELENG"].value
            IN  /\ w.units \in MicronNames => stored = w.wavelength.num
                /\ w.units \in AngstromNames => stored * 10000 = w.wavelength.num
                /\ w.units \notin MicronNames \cup AngstromNames =>
                      images_with_headers[i] # GenuineOneMicron(file)

\* the grid is ncols = nlines = count pixels of scale arcseconds, with its
\* reference pixel at half of count on both axes
CentredGrid(grid, count, scale) ==
    /\ grid.ncols = count /\ grid.nlines = count
    /\ grid.xref = [half_of |-> count] /\ grid.yref = [half_of |-> count]
    /\ grid.xmag = scale /\ grid.ymag = scale

\* the grid register_images builds for an image: phys_size over the native
\* pixel scale of the image
NativeGrid(grid, image) ==
    LET instrument == get_instrument(image.header)
        native_pixelscale == get_native_pixelscale(image.header, instrument.value)
    IN  /\ IsOk(instrument) /\ IsOk(native_pixelscale)
        /\ CentredGrid(grid,
                       [num |-> globals.phys_size.num, den |-> native_pixelscale.value],
                       [num |-> native_pixelscale.value])

\* the grid resample_images builds: phys_size over the common FWHM / 3.3
CommonGrid(grid) ==
    LET scale == [num |-> get_fwhm_value(images_with_headers).value, den |-> 33000]
    IN  CentredGrid(grid, [dividend |-> globals.phys_size.num, divisor |-> scale], scale)

\* C26: every pixel grid register_images has written in this run is
\* phys_size / native_pixelscale pixels wide and high for an image of that
\* name, with its reference pixel at half of that count, and the registered
\* image is warped onto it without flux conservation; every image
\* resample_images has written is warped with flux conservation onto the one
\* grid of the working directory, which is phys_size / (fwhm_input / 3.3)
\* pixels wide and high with its reference pixel at half of that count.
C26_GridCountAndCentreAgree ==
    \A q \in wrote \cap DOMAIN disk :
        /\ q.dir = StageDir(TheDirectory, "registered") =>
              \E i \in 1..Len(images_with_headers) :
                  \/ /\ q = StageFile(images_with_headers[i], "registered", "_pixelgrid.fits")
                     /\ NativeGrid(disk[q], images_with_headers[i])
                  \/ /\ q = StageFile(images_with_headers[i], "registered", "_registered.fits")
                     /\ NativeGrid(disk[q].data.reference, images_with_headers[i])
                     /\ disk[q].data.fluxconserve = "no"
        /\ q.dir = StageDir(TheDirectory, "resampled") =>
              /\ disk[q].data.fluxconserve = "yes"
              /\ disk[q].data.reference = cwdFiles["grid_final_resample.fits"]
              /\ CommonGrid(disk[q].data.reference)

\* a run that registered and resampled a MIPS and a SPIRE image, whose
\* native pixel scales differ
C26_Witness ==
    /\ Len(images_with_headers) = 2
    /\ get_instrument(images_with_headers[1].header) = Ok("MIPS")
    /\ get_instrument(images_with_headers[2].header) = Ok("SPIRE")
    /\ Completed("registration") /\ Completed("resampling")
    /\ \A i \in 1..2 :
          /\ StageFile(images_with_headers[i], "registered", "_pixelgrid.fits") \in wrote
          /\ StageFile(images_with_headers[i], "resampled", "_resampled.fits") \in wrote

\* the PACS and SPIRE images of the collection, in its order
HerschelImages ==
    SelectSeq(images_with_headers,
              LAMBDA image : get_instrument(image.header) \in {Ok("PACS"), Ok("SPIRE")})

\* the reference coordinate of the run on one axis: the user's value when
\* given, else the mean of the keyword over the PACS and SPIRE images
RunReference(input, keyword) ==
    IF IsNum(input) THEN [from |-> "user", of |-> <<input.num>>]
    ELSE [from |-> IF HerschelImages = <<>> THEN "nan" ELSE "herschel mean",
          of |-> [i \in 1..Len(HerschelImages) |-> HerschelImages[i].header[keyword].value]]

\* the grid is tagged with the reference position of the run
TaggedWithRunReference(grid) ==
    /\ grid.lngref = RunReference(globals.ra_input, "CRVAL1")
    /\ grid.latref = RunReference(globals.dec_input, "CRVAL2")

\* C27: every pixel grid and every registered, convolved and resampled
\* image written in this run carries the one reference position of the run
\* (per axis the user's value when given, else the mean over the PACS and
\* SPIRE images) and the one common FWHM of the collection, the same for
\* every image of the stage.
C27_AggregatesAreTheSameForEveryImage ==
    \A q \in wrote \cap DOMAIN disk :
        /\ q.dir = StageDir(TheDirectory, "registered") =>
              TaggedWithRunReference(IF "pattern" \in DOMAIN disk[q] THEN disk[q]
                                     ELSE disk[q].data.reference)
        /\ q.dir = StageDir(TheDirectory, "convolved") =>
              /\ disk[q].header["FWHM"].value = get_fwhm_value(images_with_headers).value
              /\ disk[q].data.kernel.kernelwidth.num
                     = get_fwhm_value(images_with_headers).value
        /\ q.dir = StageDir(TheDirectory, "resampled") =>
              /\ TaggedWithRunReference(disk[q].data.reference)
              /\ disk[q].data.reference.xmag.num = get_fwhm_value(images_with_headers).value

\* all five stages over a MIPS and a SPIRE image with --ra and no --dec:
\* longitude from the user, latitude from the SPIRE image
C27_Witness ==
    /\ IsNum(globals.ra_input) /\ ~IsNum(globals.dec_input)
    /\ Len(images_with_headers) = 2
    /\ Len(HerschelImages) = 1
    /\ Completed("resampling")
    /\ \A i \in 1..2 :
          /\ StageFile(images_with_headers[i], "registered", "_registered.fits") \in wrote
          /\ StageFile(images_with_headers[i], "convolved", "_convolved.fits") \in wrote
          /\ StageFile(images_with_headers[i], "resampled", "_resampled.fits") \in wrote

\* the step of __main__ that calls convert_images
ConversionIsCalled == pc = "conversion" /\ globals.do_conversion

\* record i of the collection has been converted by the step
ConvertedByStep(i) ==
    images_with_headers'[i].header # images_with_headers[i].header

\* the header of a record after its conversion
ConvertedHeader(image) ==
    LET factor == get_conversion_factor(image.header, get_instrument(image.header).value)
    IN  Put(Put(image.header, "BUNIT", Card("Jy/pixel", "")),
            "JYPXFACT", Card(factor.value, "Factor to convert original BUNIT into Jy/pixel."))

\* what the step leaves alone: the length and order of the collection, the
\* file names, the records it has not converted, the configuration
ConversionFrame ==
    /\ Len(images_with_headers') = Len(images_with_headers)
    /\ \A i \in 1..Len(images_with_headers) :
          /\ images_with_headers'[i].filename = images_with_headers[i].filename
          /\ ~ConvertedByStep(i) => images_with_headers'[i] = images_with_headers[i]
          /\ ConvertedByStep(i) =>
                images_with_headers'[i].header = ConvertedHeader(images_with_headers[i])
    /\ globals' = globals

\* C28: converting image i writes BUNIT = 'Jy/pixel' and the factor into the
\* header of that record and leaves its pixel array as it was: the scaled
\* pixels are a new array, written to the converted file of that name.  The
\* other records, the order of the collection and the configuration are
\* unchanged.
C28_ConversionScalesACopy ==
    [][ConversionIsCalled =>
           /\ ConversionFrame
           /\ \A i \in 1..Len(images_with_headers) :
                 ConvertedByStep(i) =>
                     /\ images_with_headers'[i].data = images_with_headers[i].data
                     /\ \E j \in 1..Len(images_with_headers) :
                           disk'[StageFile(images_with_headers[i], "converted",
                                           "_converted.fits")].data
                               = [op |-> "multiply", src |-> images_with_headers[j].data,
                                  factor |-> images_with_headers'[j].header["JYPXFACT"].value]
       ]_vars

\* C28 as stated: the pixel array of the record is scaled in place
C28_ConversionScalesInPlace ==
    [][ConversionIsCalled =>
           /\ ConversionFrame
           /\ \A i \in 1..Len(images_with_headers) :
                 ConvertedByStep(i) =>
                     images_with_headers'[i].data
                         = [op |-> "multiply", src |-> images_with_headers[i].data,
                            factor |-> images_with_headers'[i].header["JYPXFACT"].value]
       ]_vars

\* two images converted, each record with the factor in its header and its
\* raw pixels
C28_Witness ==
    /\ Completed("conversion")
    /\ Len(images_with_headers) = 2
    /\ \A i \in 1..2 :
          /\ Has(images_with_headers[i].header, "JYPXFACT")
          /\ images_with_headers[i].header["BUNIT"].value = "Jy/pixel"
          /\ "raw" \in DOMAIN images_with_headers[i].data
          /\ StageFile(images_with_headers[i], "converted", "_converted.fits") \in wrote

----------------------------------------------------------------------------
(* Conversion factor study: get_conversion_factor on the headers of the    *)
(* six instruments it has a branch for, every keyword it reads present,    *)
(* the pixel scale and the wavelength not 0.                                *)

FactorPixelScales == {Fx(1), 24500, Fx(6), 61200}
FactorDegrees == {-17, 17, -4, 4}
FactorMagZp == {Fx(20), Fx(21)}
FactorFilters == {"j", "J", "h", "H", "k", "K", "Ks", "ks"}
FactorSpireBands == {Fx(250), Fx(350), Fx(500)}
FactorUnits == {"Jy/pixel", "JY/PIXEL", "MJy/sr"}
\* 1520, 1999, 2000 and 2310 angstroms, in microns
FactorGalexWavelengths == {1520, 1999, 2000, 2310}

\* WAVELENG is the wavelength in microns that __main__ stored at ingestion;
\* the 2MASS branch reads FILTER and MAGZP only
FactorHeaders ==
         {[INSTRUME |-> Card("IRAC", ""), WAVELENG |-> Card(Fx(8), "micron"),
           PXSCAL1 |-> Card(p, "arcsec")] : p \in FactorPixelScales \cup {-Fx(1)}}
    \cup {[INSTRUME |-> Card("MIPS", ""), WAVELENG |-> Card(Fx(24), "micron"),
           PLTSCALE |-> Card(p, "arcsec")] : p \in FactorPixelScales}
    \cup {[INSTRUME |-> Card("GALEX", ""), WAVELENG |-> Card(w, "micron")] :
             w \in FactorGalexWavelengths}
    \cup {[INF0001 |-> Card(m, ""), WAVELENG |-> Card(w, "micron")] :
             m \in {"galex_fuv", "galex_nuv"}, w \in FactorGalexWavelengths}
    \cup {[INSTRUME |-> Card("2MASS", ""),
           FILTER |-> Card(f, ""), MAGZP |-> Card(z, "")] :
             f \in FactorFilters, z \in FactorMagZp}
    \cup {[ORIGIN |-> Card("2MASS", ""),
           FILTER |-> Card(f, ""), MAGZP |-> Card(z, "")] :
             f \in FactorFilters, z \in FactorMagZp}
    \cup {[INSTRUME |-> Card("PACS", ""), WAVELENG |-> Card(Fx(100), "micron"),
           BUNIT |-> Card(b, "")] : b \in FactorUnits}
    \cup {[INSTRUME |-> Card("SPIRE", ""), WAVELENG |-> Card(w, "micron"),
           CDELT2 |-> Card(d, "deg")] : w \in FactorSpireBands, d \in FactorDegrees}

InitFactor ==
    /\ inputDir = {}
    /\ dirs = {}
    /\ disk = EmptyDisk
    /\ cwdFiles = EmptyDisk
    /\ argv = <<>>
    /\ globals = InitialGlobals
    /\ pc = "factor"
    /\ all_files = <<>>
    /\ images_with_headers = <<>>
    /\ exitStatus = -1
    /\ cause = "running"
    /\ diag = ""
    /\ executed = <<>>
    /\ completed = <<>>
    /\ reads = {}
    /\ wrote = {}
    /\ run = 1
    /\ prev = [completed |-> FALSE, argv |-> <<>>, disk |-> EmptyDisk, dirs |-> {},
               cwd |-> EmptyDisk]
    /\ fwhm_images = <<>>
    /\ fwhm_result = -1
    /\ scale_image = <<>>
    /\ scale_grid = Unset
    /\ scale_kernel = Unset
    /\ worker_directory = ""
    /\ worker_dirs = {}
    /\ worker_pc = <<>>
    /\ worker_wrote = {}
    /\ wavelength_header = EmptyHeader
    /\ wavelength_result = Unset
    /\ instrument_header = EmptyHeader
    /\ instrument_result = Unset
    /\ sed_images = <<>>
    /\ sed_table = Unset
    /\ factor_header \in FactorHeaders
    /\ factor_result = Unset

\* instrument = get_instrument(header)
\* conversion_factor = get_conversion_factor(header, instrument)
ComputeFactor ==
    /\ pc = "factor"
    /\ factor_result = Unset
    /\ LET instrument == get_instrument(factor_header)
       IN  factor_result' =
               IF IsOk(instrument)
               THEN get_conversion_factor(factor_header, instrument.value)
               ELSE instrument
    /\ UNCHANGED <<scaleVars, workerVars, wavelengthVars, instrumentVars, sedVars, inputDir, dirs, disk, cwdFiles, argv, globals, pc, all_files,
                   images_with_headers, exitStatus, cause, diag, executed, completed,
                   reads, wrote, run, prev, fwhm_images, fwhm_result, factor_header>>

NextFactor == ComputeFactor

SpecFactor == InitFactor /\ [][NextFactor]_vars

\* the instrument tags get_conversion_factor has a branch for
FactorInstruments == {"IRAC", "MIPS", "GALEX", "2MASS", "PACS", "SPIRE"}

\* C14: for a header whose instrument is one of IRAC, MIPS, GALEX, 2MASS, PACS
\* and SPIRE, get_conversion_factor returns, and what it returns is not 0
\* (2MASS with filter J, H or Ks in any letter case included).
C14_FactorIsPositive ==
    /\ get_instrument(factor_header).value \in FactorInstruments
    /\ factor_result # Unset
    => IsOk(factor_result) /\ ~factor_result.value.zero

----------------------------------------------------------------------------
(* SED table study: the table output_seds saves as test.out, for           *)
(* collections sorted by wavelength as __main__ leaves them, two images of *)
(* a collection possibly at the same wavelength.                           *)

MaxSedImages == 3

\* wavelengths in microns, fixed point
SedWavelengths == {1520, Fx(24), Fx(70), Fx(250), Fx(350), Fx(500)}

\* image i of a collection: its header and the resampled pixels read for it
SedImage(i, wavelength) ==
    [header |-> [WAVELENG |-> Card(wavelength, "micron")],
     data |-> [resampled |-> i]]

SedCollections ==
    UNION {{[i \in 1..n |-> SedImage(i, w[i])] :
               w \in {v \in [1..n -> SedWavelengths] :
                         \A i \in 1..(n - 1) : v[i] <= v[i + 1]}} :
           n \in 1..MaxSedImages}

InitSed ==
    /\ inputDir = {}
    /\ dirs = {}
    /\ disk = EmptyDisk
    /\ cwdFiles = EmptyDisk
    /\ argv = <<>>
    /\ globals = InitialGlobals
    /\ pc = "sed"
    /\ all_files = <<>>
    /\ images_with_headers = <<>>
    /\ exitStatus = -1
    /\ cause = "running"
    /\ diag = ""
    /\ executed = <<>>
    /\ completed = <<>>
    /\ reads = {}
    /\ wrote = {}
    /\ run = 1
    /\ prev = [completed |-> FALSE, argv |-> <<>>, disk |-> EmptyDisk, dirs |-> {},
               cwd |-> EmptyDisk]
    /\ fwhm_images = <<>>
    /\ fwhm_result = -1
    /\ scale_image = <<>>
    /\ scale_grid = Unset
    /\ scale_kernel = Unset
    /\ worker_directory = ""
    /\ worker_dirs = {}
    /\ worker_pc = <<>>
    /\ worker_wrote = {}
    /\ wavelength_header = EmptyHeader
    /\ wavelength_result = Unset
    /\ instrument_header = EmptyHeader
    /\ instrument_result = Unset
    /\ factor_header = EmptyHeader
    /\ factor_result = Unset
    /\ sed_images \in SedCollections
    /\ sed_table = Unset

\* the two loops of output_seds and data = np.copy(sorted(sed_data))
BuildSedTable ==
    /\ pc = "sed"
    /\ sed_table = Unset
    /\ LET wavelengths ==
               [i \in 1..Len(sed_images) |->
                   get_wavelength(sed_images[i].header).value.wavelength.num]
           all_image_data == [i \in 1..Len(sed_images) |-> sed_images[i].data]
       IN  \E sed_data \in {SedRows(wavelengths, all_image_data)} :
               sed_table' = SortedRows(sed_data, Len(sed_data))
    /\ UNCHANGED <<scaleVars, workerVars, wavelengthVars, instrumentVars, inputDir, dirs, disk, cwdFiles, argv, globals, pc, all_files,
                   images_with_headers, exitStatus, cause, diag, executed, completed,
                   reads, wrote, run, prev, fwhm_images, fwhm_result, factorVars,
                   sed_images>>

NextSed == BuildSedTable

SpecSed == InitSed /\ [][NextSed]_vars

\* the pixels of the resampled grid
SedPixels == (0..(GridSide - 1)) \X (0..(GridSide - 1))

\* the table has one row for each image and pixel
OneRowPerImageAndPixel ==
    /\ Len(sed_table) = Len(sed_images) * Cardinality(SedPixels)
    /\ \A i \in 1..Len(sed_images) : \A p \in SedPixels :
          Cardinality({r \in 1..Len(sed_table) :
              /\ sed_table[r].x = p[1] /\ sed_table[r].y = p[2]
              /\ sed_table[r].flux = [pixel |-> p, of |-> sed_images[i].data]
              /\ sed_table[r].wavelength = sed_images[i].header["WAVELENG"].value}) = 1

\* consecutive rows are in lexicographic order of (x, y, wavelength)
RowsInOrder ==
    \A r \in 1..(Len(sed_table) - 1) :
        LET a == sed_table[r]
            b == sed_table[r + 1]
        IN  \/ a.x < b.x
            \/ a.x = b.x /\ a.y < b.y
            \/ a.x = b.x /\ a.y = b.y /\ a.wavelength <= b.wavelength

\* consecutive rows of one pixel have increasing wavelengths
WavelengthsStrictlyIncrease ==
    \A r \in 1..(Len(sed_table) - 1) :
        sed_table[r].x = sed_table[r + 1].x /\ sed_table[r].y = sed_table[r + 1].y
            => sed_table[r].wavelength < sed_table[r + 1].wavelength

\* no two images of the collection have the same wavelength
DistinctWavelengths ==
    \A i, j \in 1..Len(sed_images) :
        i # j => sed_images[i].header["WAVELENG"].value
                     # sed_images[j].header["WAVELENG"].value

\* C20: the SED table has exactly one row per image and pixel, its rows are
\* in lexicographic order of (x, y, wavelength), so that within a pixel the
\* wavelengths never decrease, and they strictly increase when no two images
\* of the collection have the same wavelength.
C20_SedTableSortedOneRowPerImagePixel ==
    sed_table # Unset =>
        /\ OneRowPerImageAndPixel
        /\ RowsInOrder
        /\ DistinctWavelengths => WavelengthsStrictlyIncrease

\* C20 as stated: within every pixel the wavelengths strictly increase
C20_WavelengthsStrictlyIncreaseAlways ==
    sed_table # Unset =>
        /\ OneRowPerImageAndPixel
        /\ RowsInOrder
        /\ WavelengthsStrictlyIncrease

\* a table built for three images, two of them at 24 microns
C20_Witness ==
    /\ sed_table # Unset
    /\ Len(sed_images) = 3
    /\ sed_images[1].header["WAVELENG"].value = Fx(24)
    /\ sed_images[2].header["WAVELENG"].value = Fx(24)
    /\ sed_images[3].header["WAVELENG"].value = Fx(250)
    /\ sed_table[1].wavelength = Fx(24) /\ sed_table[2].wavelength = Fx(24)
    /\ sed_table[3].wavelength = Fx(250)
    /\ sed_table[4].y = 1

----------------------------------------------------------------------------
(* The conversion factor against the formula table *)

\* the factor the formula table gives for a header of the study; the 2MASS
\* filters are spelled as the headers spell them, j, h and k
TableFactor(header) ==
    LET instrument == get_instrument(header).value
    IN  CASE instrument = "IRAC" ->
                 [formula |-> "MJY_PER_SR_TO_JY_PER_PIXEL * pixelscale**2",
                  constant |-> Dec(23504, -9),
                  pixelscale |-> Abs(header["PXSCAL1"].value), zero |-> FALSE]
          [] instrument = "MIPS" ->
                 [formula |-> "MJY_PER_SR_TO_JY_PER_PIXEL * pixelscale**2",
                  constant |-> Dec(23504, -9),
                  pixelscale |-> header["PLTSCALE"].value, zero |-> FALSE]
          [] instrument = "SPIRE" ->
                 [formula |-> "pixelscale**2 / beam_area",
                  pixelscale |-> 3600 * Abs(header["CDELT2"].value),
                  beam_area |-> CASE header["WAVELENG"].value = Fx(250) -> Dec(423, 0)
                                  [] header["WAVELENG"].value = Fx(350) -> Dec(751, 0)
                                  [] header["WAVELENG"].value = Fx(500) -> Dec(1587, 0),
                  zero |-> FALSE]
          [] instrument = "2MASS" ->
                 [formula |-> "fvega * 10**(-0.4 * MAGZP)",
                  fvega |-> CASE header["FILTER"].value = "j" -> Dec(1594, 0)
                              [] header["FILTER"].value = "h" -> Dec(1024, 0)
                              [] header["FILTER"].value = "k" -> Dec(6667, -1),
                  MAGZP |-> header["MAGZP"].value, zero |-> FALSE]
          [] instrument = "PACS" -> [formula |-> "1", zero |-> FALSE]
          [] instrument = "GALEX" ->
                 [formula |-> "JY_CONVERSION * f_lambda_con * wavelength**2 / c",
                  f_lambda_con |->
                      IF header["WAVELENG"].value * 10000 < Fx(2000)
                      THEN Dec(140, -17) ELSE Dec(206, -18),
                  wavelength |-> header["WAVELENG"].value * 10000, zero |-> FALSE]

\* C22: for the headers of the six instruments (2MASS with filter j, h or
\* k) get_conversion_factor returns the factor of the formula table: K1 *
\* pixelscale^2 with K1 = 2.3504e-5 for IRAC and MIPS, pixelscale^2 / beam
\* area with 423, 751, 1587 for SPIRE 250, 350, 500, fvega * 10^(-0.4 MAGZP)
\* with 1594, 1024, 666.7 for 2MASS, 1 for PACS whatever BUNIT reads, and for
\* GALEX 1.40e-15 below 2000 angstroms and 2.06e-16 at 2000 and above.
C22_FactorEqualsFormulaTable ==
    /\ factor_result # Unset
    /\ get_instrument(factor_header).value = "2MASS"
           => factor_header["FILTER"].value \in {"j", "h", "k"}
    => factor_result = Ok(TableFactor(factor_header))

\* a GALEX header at exactly 2000 angstroms, converted with the NUV constant
C22_Witness ==
    /\ get_instrument(factor_header).value = "GALEX"
    /\ factor_header["WAVELENG"].value = 2000
    /\ IsOk(factor_result)
    /\ factor_result.value.f_lambda_con = Dec(206, -18)

----------------------------------------------------------------------------
(* Instrument resolution study: get_instrument on every combination of    *)
(* the three keywords it looks at, present or absent.                      *)

\* "absent" stands for a keyword the header does not have
InstrumentTags == {"absent", "IRAC", "MIPS", "SPIRE"}
MissionValues == {"absent", "galex_fuv", "galex_nuv", "spitzer"}
OriginValues == {"absent", "2MASS", "2MASS All-Sky", "ESO"}

CardsOf(key, value) ==
    IF value = "absent" THEN {} ELSE {<<key, value>>}

\* the header with the cards of the set
HeaderOf(cards) ==
    [key \in {c[1] : c \in cards} |->
        Card((CHOOSE c \in cards : c[1] = key)[2], "")]

InstrumentHeaders ==
    {HeaderOf(CardsOf("INSTRUME", k) \cup CardsOf("INF0001", m) \cup CardsOf("ORIGIN", o)) :
        k \in InstrumentTags, m \in MissionValues, o \in OriginValues}

InitInstrument ==
    /\ inputDir = {}
    /\ dirs = {}
    /\ disk = EmptyDisk
    /\ cwdFiles = EmptyDisk
    /\ argv = <<>>
    /\ globals = InitialGlobals
    /\ pc = "instrument"
    /\ all_files = <<>>
    /\ images_with_headers = <<>>
    /\ exitStatus = -1
    /\ cause = "running"
    /\ diag = ""
    /\ executed = <<>>
    /\ completed = <<>>
    /\ reads = {}
    /\ wrote = {}
    /\ run = 1
    /\ prev = [completed |-> FALSE, argv |-> <<>>, disk |-> EmptyDisk, dirs |-> {},
               cwd |-> EmptyDisk]
    /\ fwhm_images = <<>>
    /\ fwhm_result = -1
    /\ scale_image = <<>>
    /\ scale_grid = Unset
    /\ scale_kernel = Unset
    /\ worker_directory = ""
    /\ worker_dirs = {}
    /\ worker_pc = <<>>
    /\ worker_wrote = {}
    /\ wavelength_header = EmptyHeader
    /\ wavelength_result = Unset
    /\ factor_header = EmptyHeader
    /\ factor_result = Unset
    /\ sed_images = <<>>
    /\ sed_table = Unset
    /\ instrument_header \in InstrumentHeaders
    /\ instrument_result = Unset

\* instrument = get_instrument(header)
ResolveInstrument ==
    /\ pc = "instrument"
    /\ instrument_result = Unset
    /\ instrument_result' = get_instrument(instrument_header)
    /\ UNCHANGED <<scaleVars, workerVars, wavelengthVars, inputDir, dirs, disk, cwdFiles, argv, globals, pc, all_files,
                   images_with_headers, exitStatus, cause, diag, executed, completed,
                   reads, wrote, run, prev, fwhm_images, fwhm_result, factorVars,
                   sedVars, instrument_header>>

NextInstrument == ResolveInstrument

SpecInstrument == InitInstrument /\ [][NextInstrument]_vars

\* the outcome of the full fallback chain: "fatal" when no keyword identifies
\* an instrument
FallbackChain(header) ==
    IF Has(header, "INSTRUME") THEN header["INSTRUME"].value
    ELSE IF Has(header, "INF0001") /\ Contains("galex", header["INF0001"].value) THEN "GALEX"
    ELSE IF Has(header, "ORIGIN") /\ Contains("2MASS", header["ORIGIN"].value) THEN "2MASS"
    ELSE "fatal"

\* C23: get_instrument returns the outcome of the full fallback chain,
\* INSTRUME, else GALEX by INF0001, else 2MASS by ORIGIN, and ends the run
\* when the chain finds nothing; it never returns the empty tag.
C23_InstrumentFollowsFallbackChain ==
    instrument_result # Unset =>
        /\ instrument_result # Ok("")
        /\ IF FallbackChain(instrument_header) = "fatal"
           THEN instrument_result.kind = "exit"
           ELSE instrument_result = Ok(FallbackChain(instrument_header))

----------------------------------------------------------------------------
(* Wavelength resolution study: get_wavelength on every combination of the *)
(* three keywords it looks at, in headers whose instrument resolves.       *)

\* header cards [key, value, comment]
WavelengCards == {<<"WAVELENG", Fx(24), "micron">>, <<"WAVELENG", Fx(1520), "angstrom">>}
WavelnthCards == {<<"WAVELNTH", Fx(70), "">>}
FilterCards == {<<"FILTER", f, "">> : f \in {"j", "J", "h", "H", "k", "K", "Ks", "ks"}}
InstrumentCards ==
    {<<"INSTRUME", "2MASS", "">>, <<"ORIGIN", "2MASS", "">>, <<"INSTRUME", "MIPS", "">>}

\* none or one of the cards
Optional(cards) == {{}} \cup {{c} : c \in cards}

\* the header with the cards of the set
HeaderWith(cards) ==
    [key \in {c[1] : c \in cards} |->
        LET c == CHOOSE c \in cards : c[1] = key IN Card(c[2], c[3])]

WavelengthHeaders ==
    {HeaderWith({k} \cup w \cup n \cup f) :
        k \in InstrumentCards, w \in Optional(WavelengCards),
        n \in Optional(WavelnthCards), f \in Optional(FilterCards)}

InitWavelength ==
    /\ inputDir = {}
    /\ dirs = {}
    /\ disk = EmptyDisk
    /\ cwdFiles = EmptyDisk
    /\ argv = <<>>
    /\ globals = InitialGlobals
    /\ pc = "wavelength"
    /\ all_files = <<>>
    /\ images_with_headers = <<>>
    /\ exitStatus = -1
    /\ cause = "running"
    /\ diag = ""
    /\ executed = <<>>
    /\ completed = <<>>
    /\ reads = {}
    /\ wrote = {}
    /\ run = 1
    /\ prev = [completed |-> FALSE, argv |-> <<>>, disk |-> EmptyDisk, dirs |-> {},
               cwd |-> EmptyDisk]
    /\ fwhm_images = <<>>
    /\ fwhm_result = -1
    /\ scale_image = <<>>
    /\ scale_grid = Unset
    /\ scale_kernel = Unset
    /\ worker_directory = ""
    /\ worker_dirs = {}
    /\ worker_pc = <<>>
    /\ worker_wrote = {}
    /\ factor_header = EmptyHeader
    /\ factor_result = Unset
    /\ sed_images = <<>>
    /\ sed_table = Unset
    /\ instrument_header = EmptyHeader
    /\ instrument_result = Unset
    /\ wavelength_header \in WavelengthHeaders
    /\ wavelength_result = Unset

\* wavelength, wavelength_units = get_wavelength(header)
ResolveWavelength ==
    /\ pc = "wavelength"
    /\ wavelength_result = Unset
    /\ wavelength_result' = get_wavelength(wavelength_header)
    /\ UNCHANGED <<scaleVars, inputDir, dirs, disk, cwdFiles, argv, globals, pc, all_files,
                   images_with_headers, exitStatus, cause, diag, executed, completed,
                   reads, wrote, run, prev, fwhm_images, fwhm_result, factorVars,
                   sedVars, instrumentVars, wavelength_header, workerVars>>

NextWavelength == ResolveWavelength

SpecWavelength == InitWavelength /\ [][NextWavelength]_vars

\* the 2MASS table with the filter names in any letter case, in microns
FilterTable(filter) ==
    CASE filter \in {"j", "J"} -> Num(12409)
      [] filter \in {"h", "H"} -> Num(16514)
      [] filter \in {"k", "K", "ks", "Ks"} -> Num(21656)

\* C24: get_wavelength returns WAVELENG with the unit of its comment, else
\* WAVELNTH in microns, else the wavelength of the 2MASS table for the filter
\* (J, H, Ks in any letter case) in microns, and the wavelength it returns is
\* a number whatever keywords are present.
C24_WavelengthFollowsChainAndIsNumeric ==
    wavelength_result # Unset =>
        /\ IsOk(wavelength_result)
        /\ IsNum(wavelength_result.value.wavelength)
        /\ Has(wavelength_header, "WAVELENG") =>
              wavelength_result.value =
                  [wavelength |-> Num(wavelength_header["WAVELENG"].value),
                   units |-> wavelength_header["WAVELENG"].comment]
        /\ ~Has(wavelength_header, "WAVELENG") /\ Has(wavelength_header, "WAVELNTH") =>
              wavelength_result.value =
                  [wavelength |-> Num(wavelength_header["WAVELNTH"].value),
                   units |-> "micron"]
        /\ /\ ~Has(wavelength_header, "WAVELENG") /\ ~Has(wavelength_header, "WAVELNTH")
           /\ Has(wavelength_header, "FILTER")
           /\ get_instrument(wavelength_header) = Ok("2MASS")
           => wavelength_result.value =
                  [wavelength |-> FilterTable(wavelength_header["FILTER"].value),
                   units |-> "micron"]

----------------------------------------------------------------------------
(* Directory creation study: the per-image loop body of convert_images and *)
(* of convolve_images, run by concurrent workers, one image each.  The     *)
(* workers share the stage directory of the input directory; each one      *)
(* tests for it, creates it when the test found none, and writes its own   *)
(* file into it.                                                           *)

MaxWorkers == 3
Workers == 1..MaxWorkers

\* the stage directories created in a per-image loop
WorkerDirectories == {StageDir("in", "converted"), StageDir("in", "convolved")}

\* the output file of worker w: the file of its own image in the stage
\* directory
WorkerFile(w) == [dirname |-> worker_directory, image |-> w]

InitWorkers ==
    /\ inputDir = {}
    /\ dirs = {}
    /\ disk = EmptyDisk
    /\ cwdFiles = EmptyDisk
    /\ argv = <<>>
    /\ globals = InitialGlobals
    /\ pc = "workers"
    /\ all_files = <<>>
    /\ images_with_headers = <<>>
    /\ exitStatus = -1
    /\ cause = "running"
    /\ diag = ""
    /\ executed = <<>>
    /\ completed = <<>>
    /\ reads = {}
    /\ wrote = {}
    /\ run = 1
    /\ prev = [completed |-> FALSE, argv |-> <<>>, disk |-> EmptyDisk, dirs |-> {},
               cwd |-> EmptyDisk]
    /\ fwhm_images = <<>>
    /\ fwhm_result = -1
    /\ scale_image = <<>>
    /\ scale_grid = Unset
    /\ scale_kernel = Unset
    /\ factor_header = EmptyHeader
    /\ factor_result = Unset
    /\ sed_images = <<>>
    /\ sed_table = Unset
    /\ instrument_header = EmptyHeader
    /\ instrument_result = Unset
    /\ wavelength_header = EmptyHeader
    /\ wavelength_result = Unset
    /\ worker_directory \in WorkerDirectories
    /\ worker_dirs \in {{}, {worker_directory}}
    /\ worker_pc \in [Workers -> {"exists", "idle"}]
    /\ worker_wrote = {}

WorkerFrame ==
    UNCHANGED <<inputDir, dirs, disk, cwdFiles, argv, globals, pc, all_files,
                images_with_headers, exitStatus, cause, diag, executed, completed,
                reads, wrote, run, prev, fwhm_images, fwhm_result, factorVars,
                sedVars, instrumentVars, wavelengthVars, scaleVars>>

\* if not os.path.exists(new_directory):
WorkerExists(w) ==
    /\ worker_pc[w] = "exists"
    /\ worker_pc' = [worker_pc EXCEPT
                        ![w] = IF worker_directory \in worker_dirs THEN "writeto"
                               ELSE "makedirs"]
    /\ UNCHANGED <<worker_directory, worker_dirs, worker_wrote>>
    /\ WorkerFrame

\* os.makedirs(new_directory): OSError when the directory exists
WorkerMakedirs(w) ==
    /\ worker_pc[w] = "makedirs"
    /\ IF worker_directory \in worker_dirs
       THEN /\ worker_pc' = [worker_pc EXCEPT ![w] = "OSError"]
            /\ UNCHANGED worker_dirs
       ELSE /\ worker_pc' = [worker_pc EXCEPT ![w] = "writeto"]
            /\ worker_dirs' = worker_dirs \cup {worker_directory}
    /\ UNCHANGED <<worker_directory, worker_wrote>>
    /\ WorkerFrame

\* hdu.writeto(converted_filename, clobber=True)
WorkerWriteto(w) ==
    /\ worker_pc[w] = "writeto"
    /\ worker_pc' = [worker_pc EXCEPT ![w] = "done"]
    /\ worker_wrote' = worker_wrote \cup {WorkerFile(w)}
    /\ UNCHANGED <<worker_directory, worker_dirs>>
    /\ WorkerFrame

NextWorkers ==
    \/ \E w \in Workers : WorkerExists(w)
    \/ \E w \in Workers : WorkerMakedirs(w)
    \/ \E w \in Workers : WorkerWriteto(w)

SpecWorkers == InitWorkers /\ [][NextWorkers]_vars

----------------------------------------------------------------------------
(* Pixel scale study: the loop body of register_images and convolve_images *)
(* for one image, over the instruments get_native_pixelscale tells apart   *)
(* and the values its scale keyword can hold.                              *)

ScaleInstruments == {"IRAC", "MIPS", "SPIRE", "PACS"}

\* the keyword get_native_pixelscale reads for the instrument
ScaleKeyword(instrument) ==
    CASE instrument = "IRAC" -> "PXSCAL1"
      [] instrument = "MIPS" -> "PLTSCALE"
      [] OTHER -> "CDELT2"

\* the values of the card, arcsec for PXSCAL1 and PLTSCALE, degrees for
\* CDELT2; the empty set: the header has no such card
ScaleValues(instrument) ==
    IF ScaleKeyword(instrument) = "CDELT2" THEN {{}, {0}, {17}, {-17}}
    ELSE {{}, {0}, {24500}, {-24500}}

\* a converted image of the instrument at 24 micron
ScaleImage(instrument, value) ==
    [data |-> [raw |-> instrument],
     header |-> [key \in {"INSTRUME", "WAVELENG", "BUNIT"}
                         \cup (IF value = {} THEN {} ELSE {ScaleKeyword(instrument)}) |->
                    CASE key = "INSTRUME" -> Card(instrument, "")
                      [] key = "WAVELENG" -> Card(Fx(24), "micron")
                      [] key = "BUNIT" -> Card("Jy/pixel", "")
                      [] OTHER -> Card(CHOOSE v \in value : TRUE, "")],
     filename |-> [dirname |-> TheDirectory, basename |-> instrument]]

ScaleImages ==
    UNION {{ScaleImage(k, v) : v \in ScaleValues(k)} : k \in ScaleInstruments}

\* --angular_size
ScaleSizes == {Num(Fx(60)), Num(Fx(120))}

\* the input directory with the outputs of the stages before: the converted
\* and the registered file of the image
ScaleFS(image) ==
    LET file == [data |-> image.data, header |-> image.header]
    IN  [disk |-> Put(Put(EmptyDisk,
                          StageFile(image, "converted", "_converted.fits"), file),
                      StageFile(image, "registered", "_registered.fits"), file),
         dirs |-> {StageDir(TheDirectory, "converted"), StageDir(TheDirectory, "registered")},
         cwd |-> EmptyDisk, reads |-> {}, wrote |-> {}]

InitScale ==
    /\ inputDir = {}
    /\ dirs = {}
    /\ disk = EmptyDisk
    /\ cwdFiles = EmptyDisk
    /\ argv = <<>>
    /\ \E phys_size \in ScaleSizes :
          globals = [InitialGlobals EXCEPT !.phys_size = phys_size,
                                           !.ra_input = Num(105000),
                                           !.dec_input = Num(410000)]
    /\ pc = "scale"
    /\ all_files = <<>>
    /\ images_with_headers = <<>>
    /\ exitStatus = -1
    /\ cause = "running"
    /\ diag = ""
    /\ executed = <<>>
    /\ completed = <<>>
    /\ reads = {}
    /\ wrote = {}
    /\ run = 1
    /\ prev = [completed |-> FALSE, argv |-> <<>>, disk |-> EmptyDisk, dirs |-> {},
               cwd |-> EmptyDisk]
    /\ fwhm_images = <<>>
    /\ fwhm_result = -1
    /\ factor_header = EmptyHeader
    /\ factor_result = Unset
    /\ sed_images = <<>>
    /\ sed_table = Unset
    /\ instrument_header = EmptyHeader
    /\ instrument_result = Unset
    /\ wavelength_header = EmptyHeader
    /\ wavelength_result = Unset
    /\ worker_directory = ""
    /\ worker_dirs = {}
    /\ worker_pc = <<>>
    /\ worker_wrote = {}
    /\ scale_image \in ScaleImages
    /\ scale_grid = Unset
    /\ scale_kernel = Unset

ScaleFrame ==
    UNCHANGED <<inputDir, dirs, disk, cwdFiles, argv, globals, pc, all_files,
                images_with_headers, exitStatus, cause, diag, executed, completed,
                reads, wrote, run, prev, fwhm_images, fwhm_result, factorVars,
                sedVars, instrumentVars, wavelengthVars, workerVars, scale_image>>

\* register_images(images_with_headers) on the one image
BuildGrid ==
    /\ pc = "scale"
    /\ scale_grid = Unset
    /\ scale_grid' = register_images(globals, ScaleFS(scale_image), <<scale_image>>, 0)
    /\ UNCHANGED scale_kernel
    /\ ScaleFrame

\* convolve_images(images_with_headers) on the one image
SizeKernel ==
    /\ pc = "scale"
    /\ scale_kernel = Unset
    /\ scale_kernel' = convolve_images(ScaleFS(scale_image), <<scale_image>>, 0)
    /\ UNCHANGED scale_grid
    /\ ScaleFrame

NextScale == BuildGrid \/ SizeKernel

SpecScale == InitScale /\ [][NextScale]_vars

\* the scale get_native_pixelscale returns for the image of the study
StudyScale ==
    get_native_pixelscale(scale_image.header, get_instrument(scale_image.header).value)

\* C30: for an image that reaches the grid builder or the kernel sizing the
\* native pixel scale is strictly positive, so that the pixel count
\* angular_size / native_pixelscale and the kernel width are computed and
\* positive; a scale of 0 or below never reaches the two computations.
C30_ScaleIsPositiveWhereItIsUsed ==
    IsOk(StudyScale) =>
        /\ scale_grid # Unset =>
              /\ StudyScale.value > 0
              /\ IsOk(scale_grid.end)
              /\ LET grid == scale_grid.fs.disk[StageFile(scale_image, "registered",
                                                          "_pixelgrid.fits")]
                 IN  grid.ncols.num > 0 /\ grid.ncols.den > 0
        /\ scale_kernel # Unset =>
              /\ StudyScale.value > 0
              /\ IsOk(scale_kernel.end)
              /\ scale_kernel.fs.disk[StageFile(scale_image, "convolved", "_convolved.fits")]
                     .data.kernel.kernelwidth.den > 0

\* the MIPS image with a negative PLTSCALE has a grid of a negative pixel count
C30_NegativeGrid ==
    /\ scale_grid # Unset
    /\ IsOk(scale_grid.end)
    /\ scale_grid.fs.disk[StageFile(scale_image, "registered", "_pixelgrid.fits")]
           .ncols.den < 0

\* a scale of 0 reaches the quotient of the grid builder
C30_ZeroReachesGrid ==
    /\ scale_grid # Unset
    /\ scale_grid.end = Raise("ZeroDivisionError")

====
